---- MODULE Spec2Model ----
(***************************************************************************)
(* A model of RAGPipeline (rag_pipeline.py): the in-memory Document Store  *)
(* and Vector Index of one pipeline instance, the two persisted artifacts  *)
(* (index.faiss, documents.pkl) with their .backup files, and the          *)
(* operations index_documents, delete_document, clear_all_documents,       *)
(* _retrieve_documents, query and construction (_initialize_pipeline).     *)
(*                                                                         *)
(* Each operation is one action: the calls run single-threaded.  The       *)
(* environment's failures (memory floor, PDF extraction, embedding, index  *)
(* add, the writes of the two artifacts and their removal) are inputs of   *)
(* the call, drawn with \E.  A constructor that raises leaves no pipeline  *)
(* object, so Construct models the constructions that return.  File        *)
(* renames follow POSIX: os.rename replaces an existing destination.       *)
(*                                                                         *)
(* query is a generator: SpecQuery runs it one next() at a time, between   *)
(* calls of the pipeline's operations.  SpecIngest is Spec with the        *)
(* arguments of the last index_documents call kept in args.                *)
(*                                                                         *)
(* The functions that read nothing of the pipeline (_split_text,           *)
(* _extract_document_info, _create_embeddings_batch, the page loops of     *)
(* _load_pdf and index_documents, _organize_context, _get_heading_level)   *)
(* are operators; each has a specification that draws its arguments in the *)
(* initial state and applies it.                                           *)
(*                                                                         *)
(* The threads of app.py run a statement at a time: SpecAutoIndex those    *)
(* that start the automatic indexing, SpecPasses the same under weak       *)
(* fairness, SpecServer the startup pass with an upload, a delete and a    *)
(* delete_all request.  SpecSteps runs index_documents and delete_document *)
(* a statement at a time with the retrievals made meanwhile, and           *)
(* SpecProviders the pipelines cached for two providers on one directory.  *)
(***************************************************************************)
EXTENDS Integers, Sequences, FiniteSets, TLC

VARIABLES
    embedder,   \* self.embedder is not None (the embedding model is loaded)
    index,      \* self.index: [present, rows], present = FALSE models None
    documents,  \* self.documents: sequence of Document
    disk,       \* the vector_store directory: index, docs and their backups
    ret,        \* the last call: its name, the filename given to
                \* delete_document, the failure injected, the outcome
    args,       \* SpecIngest: the file_paths of the last index_documents call,
                \* the files of it that failed to load, those that loaded
                \* and yielded no chunk, and the message of its error
    gen,        \* SpecQuery: the generator object of the query in progress
    call,       \* the call of a function of the pipeline that reads no state
                \* of it: the function, its arguments and, once it has run,
                \* what it returned; in SpecSteps the operation that is running
    app         \* the globals of app.py, its threads, the upload folder and
                \* the requests in progress

vars == <<embedder, index, documents, disk, ret, args, gen, call, app>>

(***************************************************************************)
(* Bounds of the model.                                                    *)
(***************************************************************************)
MaxDocs == 3        \* longest Document Store explored
MaxRows == 6        \* most rows of the Vector Index explored
MaxPaths == 2       \* longest file_paths list of one index_documents call
EmbedDim == 2       \* width of an embedding vector

Range(seq) == {seq[i] : i \in 1..Len(seq)}

(***************************************************************************)
(* The PDFs of the upload folder and what extraction yields for them.      *)
(***************************************************************************)
Files == {"a.pdf", "b.pdf"}

\* Document(content, metadata), rag_pipeline.py:21-24
Document(content, filename, page, chunk) ==
    [content |-> content,
     metadata |-> [filename |-> filename, page |-> page, chunk |-> chunk]]

\* The chunks lines 491-511 build for one file: one Document per non-empty
\* chunk of every extracted page, page-major.  a.pdf has two pages of one
\* chunk each, b.pdf one page of one chunk.
FileChunks(file_path) ==
    IF file_path = "a.pdf"
    THEN <<Document("a0", "a.pdf", 0, 0), Document("a1", "a.pdf", 1, 0)>>
    ELSE <<Document("b0", "b.pdf", 0, 0)>>

\* The texts of the model, each named by a key: the chunks' contents and the
\* queries.  A text is its sequence of characters.
Text(key) ==
    CASE key = "a0" -> <<"#", "#", " ", "S", "e", "t", " ", "u", "p">>
      [] key = "a1" -> <<"r", "u", "n", " ", "s", "e", "t">>
      [] key = "b0" -> <<"S", "e", "t", " ", "u", "p">>
      [] key = "q_set_up" -> <<"s", "e", "t", " ", "u", "p">>
      [] key = "q_run" -> <<"R", "u", "n">>
      [] key = "q_up" -> <<"u", "p">>
      [] OTHER -> <<>>

Queries == {"q_set_up", "q_run"}

\* the queries the re-ranker's score is computed for: those, and one of a
\* single short word
ScoredQueries == Queries \cup {"q_up"}

\* embedder.encode on one text: a fixed vector per text, of width EmbedDim.
TextCode(key) ==
    CASE key = "a0" -> 1
      [] key = "a1" -> 4
      [] key = "b0" -> 2
      [] key = "q_set_up" -> 2
      [] key = "q_run" -> 3
      [] OTHER -> 0

Embed(key) == [i \in 1..EmbedDim |-> (TextCode(key) * i) % 5]

\* embedder.encode(texts): one row per text, in input order (line 446, 883)
EncodeAll(docs) == [i \in 1..Len(docs) |-> Embed(docs[i].content)]

(***************************************************************************)
(* The Vector Index (faiss.IndexFlatL2).                                   *)
(***************************************************************************)
NoIndex == [present |-> FALSE, rows |-> <<>>]

\* faiss.IndexFlatL2(dimension): an empty index
IndexFlatL2 == [present |-> TRUE, rows |-> <<>>]

\* index.add(embeddings): appends the given rows
IndexAdd(idx, embeddings) == [present |-> TRUE, rows |-> idx.rows \o embeddings]

\* index.ntotal, 0 for an absent index
RowCount(idx) == IF idx.present THEN Len(idx.rows) ELSE 0

(***************************************************************************)
(* Files of the vector store directory.                                    *)
(***************************************************************************)
Absent == [st |-> "absent", data |-> <<>>]
Corrupt == [st |-> "corrupt", data |-> <<>>]

Exists(file) == file.st # "absent"

RECURSIVE Flatten(_)
Flatten(rows) ==
    IF rows = <<>> THEN <<>> ELSE Head(rows) \o Flatten(Tail(rows))

\* faiss.write_index: the header (d, ntotal) followed by the row data, row-major
WriteIndex(idx) ==
    [st |-> "ok",
     data |-> <<EmbedDim, Len(idx.rows)>> \o Flatten(idx.rows)]

\* faiss.read_index: rebuilds the rows from the header and the flat data
ReadIndex(file) ==
    LET d == file.data[1]
        ntotal == file.data[2]
    IN  [present |-> TRUE,
         rows |-> [r \in 1..ntotal |->
                      [c \in 1..d |-> file.data[2 + (r - 1) * d + c]]]]

\* pickle.dump(self.documents): each Document as its content and its
\* metadata mapping, in list order
PickleDump(docs) ==
    [st |-> "ok",
     data |-> [i \in 1..Len(docs) |->
                  <<docs[i].content, docs[i].metadata.filename,
                    docs[i].metadata.page, docs[i].metadata.chunk>>]]

\* pickle.load: the list of Documents back
PickleLoad(file) ==
    [i \in 1..Len(file.data) |->
        Document(file.data[i][1], file.data[i][2], file.data[i][3], file.data[i][4])]

EmptyDisk ==
    [index |-> Absent, docs |-> Absent,
     index_backup |-> Absent, docs_backup |-> Absent]

(***************************************************************************)
(* The record of the last call.                                            *)
(***************************************************************************)
Call(op, filename, fault, outcome) ==
    [op |-> op, filename |-> filename, fault |-> fault, outcome |-> outcome]

\* args when no index_documents call is recorded
NoArgs == [file_paths |-> <<>>, bad |-> {}, unsplit |-> {}, message |-> ""]

(***************************************************************************)
(* Construction: __init__ and _initialize_pipeline.                        *)
(***************************************************************************)
ConstructFaults == {"none", "read_index", "load_docs"}

\* Mutant of LoadResetOnError: the except branch resets nothing.
LoadKeepsPartial(ix, docs) == [index |-> ix, documents |-> docs]

\* lines 220-224: the except branch, given what the try had assigned so far
LoadResetOnError(ix, docs) == [index |-> NoIndex, documents |-> <<>>]

\* lines 31-32 and 215-224: self.index and self.documents after construction.
\* A corrupt file fails to load; fault makes an intact one fail.
LoadPair(d, fault) ==
    IF Exists(d.index) /\ Exists(d.docs)
    THEN IF d.index.st = "corrupt" \/ fault = "read_index"
         THEN LoadResetOnError(NoIndex, <<>>)
         ELSE IF d.docs.st = "corrupt" \/ fault = "load_docs"
              THEN LoadResetOnError(ReadIndex(d.index), <<>>)
              ELSE [index |-> ReadIndex(d.index), documents |-> PickleLoad(d.docs)]
    ELSE [index |-> NoIndex, documents |-> <<>>]

Construct(fault) ==
    LET loaded == LoadPair(disk, fault)
    IN  /\ (fault # "none") => (Exists(disk.index) /\ Exists(disk.docs))
        /\ embedder' = FALSE
        /\ index' = loaded.index
        /\ documents' = loaded.documents
        /\ disk' = disk
        /\ ret' = Call("construct", "", fault, "ok")

(***************************************************************************)
(* Persisting: the backup/rename/restore protocol of index_documents and   *)
(* the plain _save_index_and_docs of delete_document.                      *)
(***************************************************************************)
\* What a failed write leaves at its path: the file as it was when opening
\* failed, a truncated file when the failure came while writing.
FailedWrite(old, partial) == IF partial THEN Corrupt ELSE old

\* lines 594-598: rename this call's backups back into place
RestoreBackups(d, backup_index, backup_docs) ==
    LET d1 == IF backup_index /\ Exists(d.index_backup)
              THEN [d EXCEPT !.index = d.index_backup, !.index_backup = Absent]
              ELSE d
    IN  IF backup_docs /\ Exists(d1.docs_backup)
        THEN [d1 EXCEPT !.docs = d1.docs_backup, !.docs_backup = Absent]
        ELSE d1

IndexSaveFaults == {"write_index", "write_docs"}

\* lines 568-599: [disk |-> the directory afterwards, ok |-> no exception]
SaveWithBackup(d, idx, docs, fault, partial) ==
    LET backup_index == Exists(d.index)
        backup_docs == Exists(d.docs)
        dA == IF backup_index
              THEN [d EXCEPT !.index_backup = d.index, !.index = Absent]
              ELSE d
        dB == IF backup_docs
              THEN [dA EXCEPT !.docs_backup = dA.docs, !.docs = Absent]
              ELSE dA
        dC == [dB EXCEPT !.index = WriteIndex(idx)]
        dD == [dC EXCEPT !.docs = PickleDump(docs)]
        dE == IF backup_index /\ Exists(dD.index_backup)
              THEN [dD EXCEPT !.index_backup = Absent]
              ELSE dD
        dF == IF backup_docs /\ Exists(dE.docs_backup)
              THEN [dE EXCEPT !.docs_backup = Absent]
              ELSE dE
    IN  CASE fault = "write_index" ->
                [disk |-> RestoreBackups(
                              [dB EXCEPT !.index = FailedWrite(dB.index, partial)],
                              backup_index, backup_docs),
                 ok |-> FALSE]
          [] fault = "write_docs" ->
                [disk |-> RestoreBackups(
                              [dC EXCEPT !.docs = FailedWrite(dC.docs, partial)],
                              backup_index, backup_docs),
                 ok |-> FALSE]
          [] OTHER -> [disk |-> dF, ok |-> TRUE]

\* lines 906-918
SaveIndexAndDocs(d, idx, docs, fault, partial) ==
    LET d1 == IF idx.present THEN [d EXCEPT !.index = WriteIndex(idx)] ELSE d
    IN  CASE fault = "write_index" ->
                [disk |-> [d EXCEPT !.index = FailedWrite(d.index, partial)], ok |-> FALSE]
          [] fault = "write_docs" ->
                [disk |-> [d1 EXCEPT !.docs = FailedWrite(d1.docs, partial)], ok |-> FALSE]
          [] OTHER -> [disk |-> [d1 EXCEPT !.docs = PickleDump(docs)], ok |-> TRUE]

\* Mutant of ClearVectorStore: documents.pkl is left in place and True returned.
ClearIndexFileOnly(d, fault) == [disk |-> [d EXCEPT !.index = Absent], ok |-> TRUE]

\* lines 920-934
ClearVectorStore(d, fault) ==
    IF Exists(d.index) /\ fault = "remove_index"
    THEN [disk |-> d, ok |-> FALSE]
    ELSE LET d1 == [d EXCEPT !.index = Absent]
         IN  IF Exists(d1.docs) /\ fault = "remove_docs"
             THEN [disk |-> d1, ok |-> FALSE]
             ELSE [disk |-> [d1 EXCEPT !.docs = Absent], ok |-> TRUE]

(***************************************************************************)
(* index_documents                                                         *)
(***************************************************************************)
IndexFaults ==
    {"none", "memory_start", "makedirs", "memory_extend", "embed", "add"}
        \cup IndexSaveFaults

\* The exception a failing step raises inside the try of lines 473-617:
\* os.makedirs raises OSError, every other step raises or re-raises ValueError
\* (lines 49, 522, 526, 551, 565, 617)
RaisedKind(fault) == IF fault = "makedirs" THEN "OSError" ELSE "ValueError"

\* lines 619-623: what reaches the caller
OuterExcept(kind) == IF kind # "ValueError" THEN "ValueError" ELSE kind

\* Mutant of ExtractAll: the loop over the files ends at the first file that
\* fails to load.
RECURSIVE ExtractUntilBad(_, _)
ExtractUntilBad(file_paths, bad) ==
    IF file_paths = <<>> \/ Head(file_paths) \in bad THEN <<>>
    ELSE FileChunks(Head(file_paths)) \o ExtractUntilBad(Tail(file_paths), bad)

\* Mutant of ExtractAll: a file that fails to load yields its chunks all the
\* same.
RECURSIVE ExtractBadToo(_, _)
ExtractBadToo(file_paths, bad) ==
    IF file_paths = <<>> THEN <<>>
    ELSE FileChunks(Head(file_paths)) \o ExtractBadToo(Tail(file_paths), bad)

\* lines 477-523 of a call that goes on: the chunks of the files that load,
\* in file_paths order; a file in bad fails to load and is skipped
RECURSIVE ExtractAll(_, _)
ExtractAll(file_paths, bad) ==
    IF file_paths = <<>> THEN <<>>
    ELSE (IF Head(file_paths) \in bad THEN <<>> ELSE FileChunks(Head(file_paths)))
            \o ExtractAll(Tail(file_paths), bad)

\* Mutant of RollbackDocuments: the new chunks stay in the store.
NoRollback(docs, n) == docs

\* self.documents[:-len(all_chunks)], lines 549, 563, 603
RollbackDocuments(docs, n) == SubSeq(docs, 1, Len(docs) - n)

\* lines 536-542 and 559: texts is every document of the extended store, and
\* the embeddings of all of them are what index.add receives
EmbeddingsToAdd(extended, all_chunks) == EncodeAll(extended)

\* a fresh IndexFlatL2 holding one row per document (lines 607-611, 882-886)
RebuildIndex(docs) == IndexAdd(IndexFlatL2, EncodeAll(docs))

\* lines 601-615: the index after a failed save
IndexAfterSaveFailure(rolled, rebuild_ok) ==
    IF Len(rolled) > 0 /\ rebuild_ok THEN RebuildIndex(rolled) ELSE NoIndex

\* The file_paths lists of the calls: no file twice, as the callers pass them
\* (one uploaded file, or the files not yet indexed)
PathLists ==
    {<<>>} \cup
    UNION {{paths \in [1..n -> Files] :
                \A i, j \in 1..n : paths[i] = paths[j] => i = j} : n \in 1..MaxPaths}

index_documents(file_paths, bad, fault, partial, loads, rebuild_ok) ==
    LET all_chunks == ExtractAll(file_paths, bad)
        n == Len(all_chunks)
        extended == documents \o all_chunks
        rolled == RollbackDocuments(extended, n)
        embeddings == EmbeddingsToAdd(extended, all_chunks)
        created == IF index.present THEN index ELSE IndexFlatL2
        added == IndexAdd(created, embeddings)
        saved == SaveWithBackup(disk, added, extended, fault, partial)
        no_content == \/ (Len(file_paths) = 1 /\ file_paths[1] \in bad)
                      \/ all_chunks = <<>>
        before_files == fault \in {"memory_start", "makedirs"}
        early == file_paths = <<>> \/ before_files \/ no_content
                    \/ fault = "memory_extend"
        raise == Call("index_documents", "", fault,
                      OuterExcept(RaisedKind(fault)))
    IN  \* a fault is injected only at a step the call reaches
        /\ (file_paths = <<>>) => fault = "none"
        /\ (no_content /\ ~before_files) => fault = "none"
        /\ ~rebuild_ok => (~early /\ Len(rolled) > 0)
        /\ Len(documents) + n <= MaxDocs
        /\ RowCount(index) + Len(extended) <= MaxRows
        /\ IF early
           THEN /\ UNCHANGED <<embedder, index, documents, disk>>
                /\ ret' = raise
           ELSE IF fault = "embed"
           THEN /\ documents' = rolled
                /\ embedder' = (embedder \/ loads)
                /\ UNCHANGED <<index, disk>>
                /\ ret' = raise
           ELSE IF fault = "add"
           THEN /\ documents' = rolled
                /\ embedder' = TRUE
                /\ index' = created
                /\ UNCHANGED disk
                /\ ret' = raise
           ELSE IF ~saved.ok
           THEN /\ documents' = rolled
                /\ embedder' = TRUE
                /\ index' = IndexAfterSaveFailure(rolled, rebuild_ok)
                /\ disk' = saved.disk
                /\ ret' = raise
           ELSE /\ documents' = extended
                /\ embedder' = TRUE
                /\ index' = added
                /\ disk' = saved.disk
                /\ ret' = Call("index_documents", "", fault, "ok")

\* The message of the exception an index_documents call ends with, by the
\* raise that is reached first (lines 465, 49, 622, 522, 526, 551, 565, 617).
\* The files in bad fail to load; those in unsplit load and yield no chunk
\* (every page of theirs fails in the try of lines 493-514).
RaisedMessage(file_paths, bad, unsplit, fault) ==
    CASE file_paths = <<>> -> "No file paths provided for indexing"
      [] fault = "memory_start" -> "Insufficient memory available"
      [] fault = "makedirs" -> "Unexpected error during document indexing"
      [] Len(file_paths) = 1 /\ file_paths[1] \in bad -> "Failed to process file"
      [] ExtractAll(file_paths, bad \cup unsplit) = <<>> ->
            "No valid content found in any of the provided files"
      [] fault = "memory_extend" -> "Insufficient memory available"
      [] fault = "embed" -> "Failed to create embeddings"
      [] fault = "add" -> "Failed to update FAISS index"
      [] OTHER -> "Failed to save processed documents"

(***************************************************************************)
(* delete_document and clear_all_documents                                 *)
(***************************************************************************)
DeleteFaults ==
    {"none", "embed", "write_index", "write_docs", "remove_index", "remove_docs"}

\* Mutant of Remaining: only the first chunk of the file is dropped.
RemainingButFirstMatch(docs, filename) ==
    IF \A i \in 1..Len(docs) : docs[i].metadata.filename # filename
    THEN docs
    ELSE LET first == CHOOSE i \in 1..Len(docs) :
                        /\ docs[i].metadata.filename = filename
                        /\ \A j \in 1..(i - 1) : docs[j].metadata.filename # filename
         IN  SubSeq(docs, 1, first - 1) \o SubSeq(docs, first + 1, Len(docs))

\* lines 867-871: remaining_docs
Remaining(docs, filename) ==
    SelectSeq(docs, LAMBDA doc : doc.metadata.filename # filename)

\* Mutant of Matches: the early return of line 873 is never taken.
MatchesAlways(docs, filename) == TRUE

\* lines 867-874: docs_to_remove is not empty
Matches(docs, filename) ==
    \E i \in 1..Len(docs) : docs[i].metadata.filename = filename

delete_document(filename, fault, partial) ==
    LET remaining_docs == Remaining(documents, filename)
        found == documents # <<>> /\ Matches(documents, filename)
        encode_fails == ~embedder \/ fault = "embed"
        rebuilt == RebuildIndex(remaining_docs)
        saved == SaveIndexAndDocs(disk, rebuilt, remaining_docs, fault, partial)
        cleared == ClearVectorStore(disk, fault)
        result(outcome) == Call("delete_document", filename, fault, outcome)
    IN  \* a fault is injected only at a step the call reaches
        /\ ~found => fault = "none"
        /\ (found /\ remaining_docs # <<>>) =>
              /\ fault \in {"none", "embed", "write_index", "write_docs"}
              /\ ~embedder => fault = "none"
        /\ (found /\ remaining_docs = <<>>) =>
              /\ fault \in {"none", "remove_index", "remove_docs"}
              /\ fault = "remove_index" => Exists(disk.index)
              /\ fault = "remove_docs" => Exists(disk.docs)
        /\ partial => (found /\ remaining_docs # <<>>)
        /\ IF ~found
           THEN /\ UNCHANGED <<embedder, index, documents, disk>>
                /\ ret' = result("False")
           ELSE IF remaining_docs # <<>>
           THEN IF encode_fails
                THEN /\ documents' = remaining_docs
                     /\ UNCHANGED <<embedder, index, disk>>
                     /\ ret' = result("False")
                ELSE /\ documents' = remaining_docs
                     /\ index' = rebuilt
                     /\ disk' = saved.disk
                     /\ UNCHANGED embedder
                     /\ ret' = result(IF saved.ok THEN "True" ELSE "False")
           ELSE /\ documents' = remaining_docs
                /\ index' = NoIndex
                /\ disk' = cleared.disk
                /\ UNCHANGED embedder
                /\ ret' = result("True")

ClearFaults == {"none", "remove_index", "remove_docs"}

\* lines 900-904
clear_all_documents(fault) ==
    LET cleared == ClearVectorStore(disk, fault)
    IN  /\ fault = "remove_index" => Exists(disk.index)
        /\ fault = "remove_docs" => Exists(disk.docs)
        /\ documents' = <<>>
        /\ index' = NoIndex
        /\ disk' = cleared.disk
        /\ UNCHANGED embedder
        /\ ret' = Call("clear_all_documents", "", fault,
                       IF cleared.ok THEN "True" ELSE "False")

(***************************************************************************)
(* _retrieve_documents and _rerank_documents                               *)
(***************************************************************************)
MaxTopK == 2        \* largest top_k explored

\* str.lower() on one character
LowerChar(c) ==
    CASE c = "S" -> "s"
      [] c = "R" -> "r"
      [] OTHER -> c

Lower(text) == [i \in 1..Len(text) |-> LowerChar(text[i])]

\* sub in text
Contains(text, sub) ==
    \E i \in 0..(Len(text) - Len(sub)) : SubSeq(text, i + 1, i + Len(sub)) = sub

\* set(text.split()): the maximal runs of non-blank characters
SplitWords(text) ==
    LET n == Len(text)
        IsWord(i, j) ==
            /\ i <= j
            /\ \A m \in i..j : text[m] # " "
            /\ (i = 1 \/ text[i - 1] = " ")
            /\ (j = n \/ text[j + 1] = " ")
    IN  {SubSeq(text, p[1], p[2]) : p \in {q \in (1..n) \X (1..n) : IsWord(q[1], q[2])}}

\* Mutant of Score: short words count as word matches too.
ScoreShortWordsToo(query, content) ==
    LET query_lower == Lower(Text(query))
        query_words == SplitWords(query_lower)
        content_lower == Lower(Text(content))
    IN  (IF Contains(content_lower, query_lower) THEN 10 ELSE 0)
        + Cardinality({word \in query_words : Contains(content_lower, word)})
        + (IF /\ Contains(Text(content), <<"#", "#">>)
              /\ \E word \in query_words : Contains(content_lower, word)
           THEN 3 ELSE 0)

\* lines 671-691: the score of one document for a query
Score(query, content) ==
    LET query_lower == Lower(Text(query))
        query_words == SplitWords(query_lower)
        content_lower == Lower(Text(content))
    IN  (IF Contains(content_lower, query_lower) THEN 10 ELSE 0)
        + Cardinality({word \in query_words :
                          Len(word) > 2 /\ Contains(content_lower, word)})
        + (IF /\ Contains(Text(content), <<"#", "#">>)
              /\ \E word \in query_words : Contains(content_lower, word)
           THEN 3 ELSE 0)

\* lines 695-697: sort by score, descending; Python's sort is stable, so
\* documents of equal score keep their order
RECURSIVE SortByScore(_, _)
SortByScore(query, docs) ==
    IF docs = <<>> THEN <<>>
    ELSE LET best == CHOOSE i \in 1..Len(docs) :
                        /\ \A j \in 1..Len(docs) :
                              Score(query, docs[j].content) <= Score(query, docs[i].content)
                        /\ \A j \in 1..(i - 1) :
                              Score(query, docs[j].content) < Score(query, docs[i].content)
         IN  <<docs[best]>> \o
             SortByScore(query, SubSeq(docs, 1, best - 1) \o SubSeq(docs, best + 1, Len(docs)))

\* lines 665-697
RerankDocuments(query, docs) == SortByScore(query, docs)

\* squared L2 distance of two vectors
RECURSIVE Distance(_, _)
Distance(u, v) ==
    IF u = <<>> THEN 0
    ELSE (Head(u) - Head(v)) * (Head(u) - Head(v)) + Distance(Tail(u), Tail(v))

\* index.search(query_embedding, k): the 0-based numbers of the k nearest rows,
\* nearest first (the lower row first at equal distance), -1 where the index
\* holds fewer than k rows
RECURSIVE Nearest(_, _, _, _)
Nearest(rows, q, k, taken) ==
    IF k = 0 THEN <<>>
    ELSE LET cand == (1..Len(rows)) \ taken
         IN  IF cand = {}
             THEN <<-1>> \o Nearest(rows, q, k - 1, taken)
             ELSE LET best == CHOOSE i \in cand : \A j \in cand :
                                \/ Distance(rows[i], q) < Distance(rows[j], q)
                                \/ (Distance(rows[i], q) = Distance(rows[j], q) /\ i <= j)
                  IN  <<best - 1>> \o Nearest(rows, q, k - 1, taken \cup {best})

IndexSearch(idx, q, k) == Nearest(idx.rows, q, k, {})

Min(a, b) == IF a < b THEN a ELSE b

\* self.documents[idx] of Python: a negative idx counts from the end
DocAt(docs, idx) == IF idx >= 0 THEN docs[idx + 1] ELSE docs[Len(docs) + idx + 1]

\* lines 645-647 and 655-659: the documents of the rows found, those past the
\* end of the store left out; with a filename, only the documents of that file.
\* filename = "" stands for None.
\* Mutant of Candidates: the file name is not looked at.
CandidatesOfAnyFile(docs, indices, filename) ==
    LET found == SelectSeq(indices, LAMBDA idx : idx < Len(docs))
    IN  [i \in 1..Len(found) |-> DocAt(docs, found[i])]

RECURSIVE Candidates(_, _, _)
Candidates(docs, indices, filename) ==
    IF indices = <<>> THEN <<>>
    ELSE LET idx == Head(indices)
             rest == Candidates(docs, Tail(indices), filename)
         IN  IF idx < Len(docs)
                /\ (filename = "" \/ DocAt(docs, idx).metadata.filename = filename)
             THEN <<DocAt(docs, idx)>> \o rest
             ELSE rest

\* lines 633-663: the list _retrieve_documents returns
Retrieve(query, top_k, filename) ==
    IF ~index.present \/ Len(documents) = 0 THEN <<>>
    ELSE LET indices == IndexSearch(index, Embed(query), Min(top_k * 2, Len(documents)))
             ranked == RerankDocuments(query, Candidates(documents, indices, filename))
         IN  SubSeq(ranked, 1, Min(top_k, Len(ranked)))

\* _retrieve_documents as a step: it loads the embedding model when it gets
\* past line 636 and changes nothing else
retrieve_documents ==
    /\ embedder' = (embedder \/ (index.present /\ Len(documents) > 0))
    /\ UNCHANGED <<index, documents, disk>>
    /\ ret' = Call("retrieve", "", "none", "ok")

(***************************************************************************)
(* query: the generator of lines 788-856, run one next() at a time.        *)
(***************************************************************************)
MaxFragments == 2   \* most chunks the generation provider streams for a query

\* self.model_provider: the providers _generate_response knows.  No operation
\* changes it, so it is kept with the query that runs on the pipeline.
Providers == {"ollama", "openai"}

\* The attributes class Config defines (config.py:6-12)
ConfigAttributes ==
    {"SECRET_KEY", "UPLOAD_FOLDER", "ALLOWED_EXTENSIONS", "OPENAI_API_KEY",
     "OLLAMA_MODEL", "VECTOR_STORE_PATH"}

\* Config.<name> evaluates; an attribute the class lacks raises AttributeError
HasConfig(name) == name \in ConfigAttributes

\* lines 725, 742 and 831-834: the attribute that names the provider's model
ModelAttribute(provider) ==
    IF provider = "openai" THEN "OPENAI_MODEL" ELSE "OLLAMA_MODEL"

\* One item of the stream: a string in the code, here with what it is made of
Fragment(kind, text, filename, page) ==
    [kind |-> kind, text |-> text, filename |-> filename, page |-> page]

\* line 791
NoDocumentsIndexed ==
    Fragment("message",
             "No documents have been indexed yet. Please upload some PDF documents first.",
             "", 0)

\* line 801
NoRelevantDocuments ==
    Fragment("message", "No relevant documents found for your query.", "", 0)

\* The content of the provider's chunk number i: a text of its own, or the
\* empty content some chunks of a stream carry (lines 733, 750)
ChunkContent(has_content, i) == IF has_content THEN "t" \o ToString(i) ELSE ""

\* What the provider does for one request: response[i] says whether its chunk
\* number i carries content; after the last chunk the stream ends, or fails
ProviderResponses ==
    UNION {[1..n -> BOOLEAN] : n \in 0..MaxFragments}

\* lines 736-737 and 753-754: the except branch yields the error as text
ProviderExcept(provider) ==
    [raised |-> FALSE,
     fragment |-> Fragment("error",
                           IF provider = "openai" THEN "Error with OpenAI"
                                                  ELSE "Error with Ollama",
                           "", 0)]

\* lines 848-856: the performance line (its timings are not modelled)
PerformanceData(provider) ==
    Fragment("performance", ModelAttribute(provider), "", 0)

\* Mutant of PrimaryDoc: the last of the retrieved chunks is cited.
LastDoc(relevant_docs) == relevant_docs[Len(relevant_docs)]

\* line 839
PrimaryDoc(relevant_docs) == relevant_docs[1]

\* lines 839-846: the citation of one chunk, its page counted from 1
SourceText(doc) ==
    Fragment("source", "", doc.metadata.filename, doc.metadata.page + 1)

\* Mutant of NoDocuments: the check of line 790 never ends the query.
NoDocumentsNever(idx, docs) == FALSE

\* line 790
NoDocuments(idx, docs) == ~idx.present \/ Len(docs) = 0

\* Mutant of NoRelevant: the check of line 800 never ends the query.
NoRelevantNever(relevant_docs) == FALSE

\* line 800
NoRelevant(relevant_docs) == relevant_docs = <<>>

\* The generator object before query() is called and after it is dropped
NoGenerator ==
    [pc |-> "none", query |-> "", filename |-> "", provider |-> "",
     relevant_docs |-> <<>>,
     response |-> <<>>, fails |-> FALSE, pos |-> 0, failed |-> FALSE,
     retrieved |-> FALSE, called |-> FALSE, stream |-> <<>>]

\* lines 720-754: _generate_response resumed.  The request names the model
\* by its Config attribute inside the try; the loop passes the chunks without
\* content and stops at the next chunk with content (yield), at a failure
\* (the except branch) or at the end of the stream.
RECURSIVE GenerateNext(_)
GenerateNext(g) ==
    IF g.failed
    THEN [end |-> TRUE, raised |-> FALSE, fragment |-> NoDocumentsIndexed, g |-> g]
    ELSE IF ~HasConfig(ModelAttribute(g.provider))
    THEN LET handled == ProviderExcept(g.provider)
         IN  [end |-> FALSE, raised |-> handled.raised, fragment |-> handled.fragment,
              g |-> [g EXCEPT !.failed = TRUE]]
    ELSE IF ~g.called
    THEN GenerateNext([g EXCEPT !.called = TRUE])
    ELSE IF g.pos < Len(g.response)
    THEN IF g.response[g.pos + 1]
         THEN [end |-> FALSE, raised |-> FALSE,
               fragment |-> Fragment("generated", ChunkContent(TRUE, g.pos + 1), "", 0),
               g |-> [g EXCEPT !.pos = @ + 1]]
         ELSE GenerateNext([g EXCEPT !.pos = @ + 1])
    ELSE IF g.fails
    THEN LET handled == ProviderExcept(g.provider)
         IN  [end |-> FALSE, raised |-> handled.raised, fragment |-> handled.fragment,
              g |-> [g EXCEPT !.failed = TRUE]]
    ELSE [end |-> TRUE, raised |-> FALSE, fragment |-> NoDocumentsIndexed, g |-> g]

\* g suspended at a yield of fragment, at the place pc
Yield(g, pc, fragment) == [g EXCEPT !.pc = pc, !.stream = Append(@, fragment)]

\* lines 813-856 resumed inside or before the loop over the provider's
\* fragments: the generator as the next yield leaves it, or as the exception
\* that leaves query does.  The model's name is read (lines 831-834) when the
\* loop has ended, before the citation.
Generating(g) ==
    LET step == GenerateNext(g)
    IN  IF step.raised THEN [step.g EXCEPT !.pc = "raised"]
        ELSE IF ~step.end THEN Yield(step.g, "generating", step.fragment)
        ELSE IF ~HasConfig(ModelAttribute(g.provider))
        THEN [step.g EXCEPT !.pc = "raised"]
        ELSE IF g.relevant_docs # <<>>
        THEN Yield(step.g, "source", SourceText(PrimaryDoc(g.relevant_docs)))
        ELSE Yield(step.g, "performance", PerformanceData(g.provider))

\* pipeline.query(query_text, filename): the generator is created; none of its
\* body runs before the first next()
query(provider, query_text, filename) ==
    /\ gen.pc = "none"
    /\ gen' = [NoGenerator EXCEPT !.pc = "created", !.provider = provider,
                                  !.query = query_text, !.filename = filename]
    /\ ret' = Call("query", "", "none", "ok")
    /\ UNCHANGED <<embedder, index, documents, disk, args, call, app>>

\* next() on the generator: the body runs to its next yield or to its end.
\* response and fails are what the provider does when generation starts here.
query_next(response, fails) ==
    LET relevant_docs == Retrieve(gen.query, 5, gen.filename)
        retrieves == gen.pc = "created" /\ ~NoDocuments(index, documents)
        starts == retrieves /\ ~NoRelevant(relevant_docs)
        started == [gen EXCEPT !.relevant_docs = relevant_docs, !.retrieved = TRUE,
                               !.response = response, !.fails = fails]
    IN  /\ gen.pc \notin {"none", "done", "raised"}
        \* the provider's behaviour is an input only of a step that calls it
        /\ ~(starts /\ HasConfig(ModelAttribute(gen.provider)))
              => (response = <<>> /\ ~fails)
        /\ embedder' = (embedder \/ retrieves)
        /\ gen' = CASE gen.pc = "created" /\ ~retrieves ->
                          Yield(gen, "no_documents", NoDocumentsIndexed)
                    [] retrieves /\ ~starts ->
                          Yield([gen EXCEPT !.retrieved = TRUE],
                                "no_relevant", NoRelevantDocuments)
                    [] starts -> Generating(started)
                    [] gen.pc = "generating" -> Generating(gen)
                    [] gen.pc = "source" ->
                          Yield(gen, "performance", PerformanceData(gen.provider))
                    [] OTHER -> [gen EXCEPT !.pc = "done"]
        /\ UNCHANGED <<index, documents, disk, ret, args, call, app>>

\* the caller drops the generator, finished or not
query_close ==
    /\ gen.pc # "none"
    /\ gen' = NoGenerator
    /\ UNCHANGED <<embedder, index, documents, disk, ret, args, call, app>>

(***************************************************************************)
(* _split_text (rag_pipeline.py:385-432) and the page loop that calls it.  *)
(* A text is its sequence of characters; the sizes are scaled down from    *)
(* the defaults 1200 and 150, the cap of 2000 chunks to ChunkLimit.        *)
(***************************************************************************)
MaxTextLen == 7     \* longest text given to _split_text
ChunkLimit == 2     \* the cap on the chunks of one call (2000 at line 429)

\* the characters of the texts: two letters and the newline, which is both
\* whitespace for str.strip and, doubled, the paragraph separator
Chars == {"a", "b", "\n"}
Whitespace == {"\n", " "}

Texts == UNION {[1..n -> Chars] : n \in 0..MaxTextLen}

\* the pairs (chunk_size, chunk_overlap) a call is made with; the overlap is
\* positive and below the chunk size, as the defaults are
SplitSizes == {<<2, 1>>, <<3, 2>>, <<5, 2>>}

\* str.strip(): leading and trailing whitespace removed
RECURSIVE LStrip(_)
LStrip(s) ==
    IF s # <<>> /\ Head(s) \in Whitespace THEN LStrip(Tail(s)) ELSE s

RECURSIVE RStrip(_)
RStrip(s) ==
    IF s # <<>> /\ s[Len(s)] \in Whitespace
    THEN RStrip(SubSeq(s, 1, Len(s) - 1))
    ELSE s

Strip(s) == LStrip(RStrip(s))

ParagraphBreak == <<"\n", "\n">>

\* text.split('\n\n'): the pieces between the separators, found left to
\* right; current is the piece being read.  "".split gives [""].
RECURSIVE SplitParagraphs(_, _)
SplitParagraphs(text, current) ==
    IF text = <<>> THEN <<current>>
    ELSE IF Len(text) >= 2 /\ SubSeq(text, 1, 2) = ParagraphBreak
         THEN <<current>> \o SplitParagraphs(SubSeq(text, 3, Len(text)), <<>>)
         ELSE SplitParagraphs(Tail(text), Append(current, Head(text)))

\* chunks[-1][-chunk_overlap:] if len(chunks[-1]) > chunk_overlap else
\* chunks[-1] (line 410); s[-0:] is all of s
OverlapText(chunk, chunk_overlap) ==
    IF Len(chunk) > chunk_overlap /\ chunk_overlap > 0
    THEN SubSeq(chunk, Len(chunk) - chunk_overlap + 1, Len(chunk))
    ELSE chunk

\* the loop's variables before the first paragraph (lines 387-392)
SplitStart == [chunks |-> <<>>, current_chunk |-> <<>>, current_size |-> 0]

\* line 404-405 and 425-426: the current chunk is saved stripped, if that
\* leaves anything
SaveChunkAlways(chunks, current_chunk) ==
    Append(chunks, Strip(current_chunk))

SaveChunk(chunks, current_chunk) ==
    IF Strip(current_chunk) # <<>>
    THEN Append(chunks, Strip(current_chunk))
    ELSE chunks

\* line 411: the chunk that follows a saved one starts with its overlap
StartWithoutOverlap(chunks, chunk_overlap, paragraph) == paragraph

StartWithOverlap(chunks, chunk_overlap, paragraph) ==
    OverlapText(chunks[Len(chunks)], chunk_overlap) \o ParagraphBreak \o paragraph

\* line 402: adding the paragraph would exceed the chunk size
ExceedsWithBreak(current_size, paragraph_size, chunk_size) ==
    current_size + paragraph_size + 2 > chunk_size

Exceeds(current_size, paragraph_size, chunk_size) ==
    current_size + paragraph_size > chunk_size

\* one turn of the loop of lines 394-422
SplitParagraph(st, raw, chunk_size, chunk_overlap) ==
    LET paragraph == Strip(raw)
        paragraph_size == Len(paragraph)
    IN  IF paragraph = <<>> THEN st
        ELSE IF Exceeds(st.current_size, paragraph_size, chunk_size)
                /\ st.current_chunk # <<>>
        THEN LET chunks == SaveChunk(st.chunks, st.current_chunk)
             IN  IF Len(chunks) > 0
                 THEN LET current ==
                             StartWithOverlap(chunks, chunk_overlap, paragraph)
                      IN  [chunks |-> chunks, current_chunk |-> current,
                           current_size |-> Len(current)]
                 ELSE [chunks |-> chunks, current_chunk |-> paragraph,
                       current_size |-> paragraph_size]
        ELSE [chunks |-> st.chunks,
              current_chunk |-> IF st.current_chunk # <<>>
                                THEN st.current_chunk \o ParagraphBreak \o paragraph
                                ELSE paragraph,
              current_size |-> st.current_size + paragraph_size + 2]

RECURSIVE SplitLoop(_, _, _, _)
SplitLoop(st, paragraphs, chunk_size, chunk_overlap) ==
    IF paragraphs = <<>> THEN st
    ELSE SplitLoop(SplitParagraph(st, Head(paragraphs), chunk_size, chunk_overlap),
                   Tail(paragraphs), chunk_size, chunk_overlap)

\* lines 387-426: the chunks before the cap is applied
SplitChunks(text, chunk_size, chunk_overlap) ==
    LET st == SplitLoop(SplitStart, SplitParagraphs(text, <<>>),
                        chunk_size, chunk_overlap)
    IN  SaveChunk(st.chunks, st.current_chunk)

\* lines 429-430: chunks[:2000]
LastChunksKept(chunks) ==
    IF Len(chunks) > ChunkLimit
    THEN SubSeq(chunks, Len(chunks) - ChunkLimit + 1, Len(chunks))
    ELSE chunks

LimitChunks(chunks) ==
    IF Len(chunks) > ChunkLimit THEN SubSeq(chunks, 1, ChunkLimit) ELSE chunks

\* _split_text(text, chunk_size, chunk_overlap)
SplitText(text, chunk_size, chunk_overlap) ==
    LimitChunks(SplitChunks(text, chunk_size, chunk_overlap))

\* lines 494-511: the Documents of one page, one per chunk that is not blank,
\* numbered by the chunk's position among the chunks of the page
RECURSIVE PageDocuments(_, _, _, _)
PageDocuments(chunks, filename, page_num, chunk_num) ==
    IF chunk_num >= Len(chunks) THEN <<>>
    ELSE (IF Strip(chunks[chunk_num + 1]) # <<>>
          THEN <<Document(chunks[chunk_num + 1], filename, page_num, chunk_num)>>
          ELSE <<>>)
         \o PageDocuments(chunks, filename, page_num, chunk_num + 1)

NoCall == [fn |-> "none"]

\* a call of _split_text on the text of page 0 of a.pdf, not yet run
SplitCall(text, sizes) ==
    [fn |-> "_split_text", text |-> text, chunk_size |-> sizes[1],
     chunk_overlap |-> sizes[2], returned |-> FALSE, chunks |-> <<>>,
     page_documents |-> <<>>]

\* lines 493-511 for one page: the text is split and its chunks become
\* Documents
split_text ==
    /\ call.fn = "_split_text"
    /\ ~call.returned
    /\ LET chunks == SplitText(call.text, call.chunk_size, call.chunk_overlap)
       IN  call' = [call EXCEPT !.returned = TRUE, !.chunks = chunks,
                                !.page_documents =
                                    PageDocuments(chunks, "a.pdf", 0, 0)]
    /\ UNCHANGED <<embedder, index, documents, disk, ret, args, gen, app>>

(***************************************************************************)
(* _extract_document_info (rag_pipeline.py:183-204): the best title.  A    *)
(* title that may be None is a sequence of no title or of one.             *)
(***************************************************************************)
None == <<>>
Some(text) == <<text>>

\* the files whose titles are taken, by basename
TitledFiles ==
    {<<"m", "y", "_", "d", "o", "c", ".", "p", "d", "f">>,
     <<"a", "B", ".", "p", "d", "f">>,
     <<"a", ".", "p", "d", "f", ".", "p", "d", "f">>,
     <<"a", ".", "p", "d", "f", "s", "_", "b", ".", "p", "d", "f">>,
     <<".", "p", "d", "f">>}

\* info.get('/Title') of the PDF: no such entry, or its text, which may be
\* empty or blank
PdfTitles ==
    {None, Some(<<>>), Some(<<" ">>), Some(<<"G", "u", "i", "d", "e">>)}

\* _extract_document_title(pages): None, or the line taken for the title
ExtractedTitles ==
    {None, Some(<<"S", "e", "t", " ", "u", "p">>),
     Some(<<"#", "#", " ", "S", "e", "t", " ", "u", "p">>)}

SmallLetters == <<"a", "b", "c", "d", "f", "m", "o", "p", "s", "y">>
CapitalLetters == <<"A", "B", "C", "D", "F", "M", "O", "P", "S", "Y">>

IsLetter(c) == c \in Range(SmallLetters) \cup Range(CapitalLetters)

\* str.upper() and str.lower() on one character
Capital(c) ==
    IF c \in Range(SmallLetters)
    THEN CapitalLetters[CHOOSE i \in 1..Len(SmallLetters) : SmallLetters[i] = c]
    ELSE c

Small(c) ==
    IF c \in Range(CapitalLetters)
    THEN SmallLetters[CHOOSE i \in 1..Len(CapitalLetters) : CapitalLetters[i] = c]
    ELSE c

\* str.title(): a letter is capital after a character that is no letter and
\* at the start, small after a letter
Title(s) ==
    [i \in 1..Len(s) |->
        IF i > 1 /\ IsLetter(s[i - 1]) THEN Small(s[i]) ELSE Capital(s[i])]

StartsWith(s, prefix) ==
    Len(prefix) <= Len(s) /\ SubSeq(s, 1, Len(prefix)) = prefix

\* s.replace(old, ''): every occurrence of old removed, found left to right
RECURSIVE Remove(_, _)
Remove(s, old) ==
    IF s = <<>> THEN <<>>
    ELSE IF StartsWith(s, old)
         THEN Remove(SubSeq(s, Len(old) + 1, Len(s)), old)
         ELSE <<Head(s)>> \o Remove(Tail(s), old)

\* s.replace('_', ' ')
UnderscoresToSpaces(s) == [i \in 1..Len(s) |-> IF s[i] = "_" THEN " " ELSE s[i]]

DotPdf == <<".", "p", "d", "f">>

\* line 198: filename.replace('.pdf', '').replace('_', ' ').title()
FilenameTitle(filename) == Title(UnderscoresToSpaces(Remove(filename, DotPdf)))

\* a candidate that is neither None nor ''
Truthy(title) == title # None /\ title[1] # <<>>

\* lines 195-202: the first candidate that is truthy, else the filename
BestTitleHeuristicFirst(pdf_title, extracted_title, filename) ==
    LET title_candidates ==
            <<extracted_title, pdf_title, Some(FilenameTitle(filename))>>
        usable == {i \in 1..3 : Truthy(title_candidates[i])}
    IN  IF usable = {} THEN filename
        ELSE title_candidates[CHOOSE i \in usable : \A j \in usable : i <= j][1]

BestTitle(pdf_title, extracted_title, filename) ==
    LET title_candidates ==
            <<pdf_title, extracted_title, Some(FilenameTitle(filename))>>
        usable == {i \in 1..3 : Truthy(title_candidates[i])}
    IN  IF usable = {} THEN filename
        ELSE title_candidates[CHOOSE i \in usable : \A j \in usable : i <= j][1]

\* a call of _extract_document_info on a file whose metadata and first page
\* give these titles, not yet run
TitleCall(pdf_title, extracted_title, filename) ==
    [fn |-> "_extract_document_info", pdf_title |-> pdf_title,
     extracted_title |-> extracted_title, filename |-> filename,
     returned |-> FALSE, best_title |-> <<>>]

extract_document_info ==
    /\ call.fn = "_extract_document_info"
    /\ ~call.returned
    /\ call' = [call EXCEPT !.returned = TRUE,
                            !.best_title = BestTitle(call.pdf_title,
                                                     call.extracted_title,
                                                     call.filename)]
    /\ UNCHANGED <<embedder, index, documents, disk, ret, args, gen, app>>

(***************************************************************************)
(* _create_embeddings_batch (rag_pipeline.py:434-458).  The environment of *)
(* a call is the batch whose memory check finds less than the floor and    *)
(* the batch whose encoding fails, numbered from 1, 0 for none.            *)
(***************************************************************************)
MaxBatchTexts == 4      \* most texts given to one call

\* the batch sizes of the calls (8 and 16 at line 541), scaled down
BatchSizes == {1, 2}

ChunkKeys == {"a0", "a1", "b0"}

BatchTexts == UNION {[1..n -> ChunkKeys] : n \in 0..MaxBatchTexts}

\* line 439: texts[i:i + batch_size]
BatchFromStart(texts, i, batch_size) ==
    SubSeq(texts, 1, Min(batch_size, Len(texts)))

Batch(texts, i, batch_size) ==
    SubSeq(texts, i + 1, Min(i + batch_size, Len(texts)))

\* embedder.encode(batch): one row per text of the batch, in order
Encode(batch) == [k \in 1..Len(batch) |-> Embed(batch[k])]

\* what a call leaves: how it ended, the matrix it returned, the batches
\* given to the embedder and the number of memory checks made
Embedded(outcome, rows, batches, checks) ==
    [outcome |-> outcome, rows |-> rows, batches |-> batches, checks |-> checks]

\* the loop of lines 438-453 from offset i on, and lines 455-458 after it
RECURSIVE CreateEmbeddingsFrom(_, _, _, _, _, _)
CreateEmbeddingsFrom(i, texts, batch_size, low_at, fails_at, batches) ==
    LET number == (i \div batch_size) + 1
        batch == Batch(texts, i, batch_size)
    IN  IF i >= Len(texts)
        THEN IF batches = <<>>
             THEN Embedded("ValueError", <<>>, batches, number - 1)
             ELSE Embedded("ok",
                           Flatten([b \in 1..Len(batches) |-> Encode(batches[b])]),
                           batches, number - 1)
        ELSE IF low_at = number
        THEN Embedded("ValueError", <<>>, batches, number)
        ELSE IF fails_at = number
        THEN Embedded("ValueError", <<>>, batches, number)
        ELSE CreateEmbeddingsFrom(i + batch_size, texts, batch_size, low_at,
                                  fails_at, Append(batches, batch))

CreateEmbeddingsBatch(texts, batch_size, low_at, fails_at) ==
    CreateEmbeddingsFrom(0, texts, batch_size, low_at, fails_at, <<>>)

\* a call of _create_embeddings_batch in its environment, not yet run
EmbedCall(texts, batch_size, low_at, fails_at) ==
    [fn |-> "_create_embeddings_batch", texts |-> texts,
     batch_size |-> batch_size, low_at |-> low_at, fails_at |-> fails_at,
     returned |-> FALSE, result |-> Embedded("", <<>>, <<>>, 0)]

create_embeddings_batch ==
    /\ call.fn = "_create_embeddings_batch"
    /\ ~call.returned
    /\ call' = [call EXCEPT !.returned = TRUE,
                            !.result = CreateEmbeddingsBatch(call.texts,
                                           call.batch_size, call.low_at,
                                           call.fails_at)]
    /\ UNCHANGED <<embedder, index, documents, disk, ret, args, gen, app>>

(***************************************************************************)
(* The page loops: _load_pdf (rag_pipeline.py:286-304) collects the texts  *)
(* of the pages, index_documents (lines 491-511) numbers them.  A PDF is   *)
(* the sequence of what extract_text does on each of its pages.            *)
(***************************************************************************)
MaxPages == 3       \* most pages of a PDF

\* what a page yields: a text, nothing, whitespace only, or an exception
PageKinds == {"text", "empty", "blank", "fails"}

Pdfs == UNION {[1..n -> PageKinds] : n \in 1..MaxPages}

Digits == <<"0", "1", "2", "3", "4", "5", "6", "7", "8", "9">>

\* page.extract_text() on page page_num (0-based) of the PDF: the text of a
\* page names the page, so no two pages of a PDF have the same text
ExtractText(pdf, page_num) ==
    CASE pdf[page_num + 1] = "text" -> <<"p", Digits[page_num + 1]>>
      [] pdf[page_num + 1] = "blank" -> <<" ">>
      [] OTHER -> <<>>

\* _process_page_text on a text of one line shorter than 3 characters: the
\* line is stripped and is no heading (line 365)
ProcessPageText(text) == Strip(text)

\* lines 286-301: the processed texts of the pages that have any, in page
\* order; a page whose extraction raises is skipped
RECURSIVE LoadPages(_, _)
LoadPages(pdf, page_num) ==
    IF page_num >= Len(pdf) THEN <<>>
    ELSE LET text == ExtractText(pdf, page_num)
             kept == /\ pdf[page_num + 1] # "fails"
                     /\ Strip(text) # <<>>
                     /\ Strip(ProcessPageText(text)) # <<>>
         IN  (IF kept THEN <<ProcessPageText(text)>> ELSE <<>>)
                 \o LoadPages(pdf, page_num + 1)

\* _load_pdf: the texts, or a ValueError when no page has text (line 303)
LoadPdf(pdf) ==
    LET texts == LoadPages(pdf, 0)
    IN  [raised |-> texts = <<>>, texts |-> texts]

\* the sizes _split_text is called with at line 493 (its defaults)
DefaultSizes == <<5, 2>>

\* lines 491-511: the Documents of the pages, page_num being the position
\* of the page in pages
RECURSIVE PagesDocuments(_, _, _)
PagesDocuments(pages, filename, page_num) ==
    IF page_num >= Len(pages) THEN <<>>
    ELSE PageDocuments(SplitText(pages[page_num + 1], DefaultSizes[1],
                                 DefaultSizes[2]),
                       filename, page_num, 0)
             \o PagesDocuments(pages, filename, page_num + 1)

\* a PDF about to be loaded and cut into Documents
PagesCall(pdf) ==
    [fn |-> "_load_pdf", pdf |-> pdf, returned |-> FALSE, raised |-> FALSE,
     all_chunks |-> <<>>]

\* lines 480-511 for one file
load_pdf ==
    /\ call.fn = "_load_pdf"
    /\ ~call.returned
    /\ LET loaded == LoadPdf(call.pdf)
       IN  call' = [call EXCEPT
                       !.returned = TRUE,
                       !.raised = loaded.raised,
                       !.all_chunks = PagesDocuments(loaded.texts, "a.pdf", 0)]
    /\ UNCHANGED <<embedder, index, documents, disk, ret, args, gen, app>>

(***************************************************************************)
(* _organize_context (rag_pipeline.py:756-786).  The context is the list   *)
(* organized_parts, which the function joins with newlines.                *)
(***************************************************************************)
MaxContext == 3     \* most chunks given to _organize_context

\* the chunks a retrieval can return: of two files, two pages and two chunks
\* a page, the content of each naming it
ContextChunks ==
    {Document(<<IF f = "a.pdf" THEN "a" ELSE "b", Digits[page + 1],
                Digits[chunk + 1]>>, f, page, chunk) :
        f \in Files, page \in 0..1, chunk \in 0..1}

ContextLists == UNION {[1..n -> ContextChunks] : n \in 0..MaxContext}

\* one element of organized_parts: the heading of a section ("## From
\* {filename} (Page {page}):"), the content under it, the empty line after
\* it, or the text returned for no chunk at all
Part(kind, filename, page, text) ==
    [kind |-> kind, filename |-> filename, page |-> page, text |-> text]

NoContextAvailable == <<Part("no_context", "", 0, <<>>)>>

\* the keys of docs_by_file, in insertion order: the filenames of the chunks
\* in order of first appearance (lines 765-769)
RECURSIVE FilenamesOf(_, _)
FilenamesOf(docs, seen) ==
    IF docs = <<>> THEN <<>>
    ELSE LET filename == Head(docs).metadata.filename
         IN  IF filename \in seen THEN FilenamesOf(Tail(docs), seen)
             ELSE <<filename>> \o FilenamesOf(Tail(docs), seen \cup {filename})

\* docs_by_file[filename]: the chunks of the file, in the order given
DocsOfFile(docs, filename) ==
    SelectSeq(docs, LAMBDA doc : doc.metadata.filename = filename)

\* sorted(docs, key=chunk): ascending, chunks of equal number in their order
RECURSIVE SortByChunk(_)
SortByChunk(docs) ==
    IF docs = <<>> THEN <<>>
    ELSE LET first == CHOOSE i \in 1..Len(docs) :
                         /\ \A j \in 1..Len(docs) :
                               docs[i].metadata.chunk <= docs[j].metadata.chunk
                         /\ \A j \in 1..(i - 1) :
                               docs[i].metadata.chunk < docs[j].metadata.chunk
         IN  <<docs[first]>> \o
             SortByChunk(SubSeq(docs, 1, first - 1) \o SubSeq(docs, first + 1, Len(docs)))

\* lines 775-778: the chunk rendered for a file
FirstRanked(docs) == docs[1]

FirstByChunk(docs) == SortByChunk(docs)[1]

\* lines 778-784: the three parts of the section of one file
Section(filename, docs) ==
    LET doc == FirstByChunk(docs)
    IN  <<Part("heading", filename, doc.metadata.page + 1, <<>>),
          Part("content", "", 0, Strip(doc.content)),
          Part("empty", "", 0, <<>>)>>

RECURSIVE Sections(_, _)
Sections(filenames, docs) ==
    IF filenames = <<>> THEN <<>>
    ELSE Section(Head(filenames), DocsOfFile(docs, Head(filenames)))
             \o Sections(Tail(filenames), docs)

OrganizeContext(context_docs) ==
    IF context_docs = <<>> THEN NoContextAvailable
    ELSE Sections(FilenamesOf(context_docs, {}), context_docs)

\* a call of _organize_context on retrieved chunks, not yet run
ContextCall(context_docs) ==
    [fn |-> "_organize_context", context_docs |-> context_docs,
     returned |-> FALSE, context |-> <<>>]

organize_context ==
    /\ call.fn = "_organize_context"
    /\ ~call.returned
    /\ call' = [call EXCEPT !.returned = TRUE,
                            !.context = OrganizeContext(call.context_docs)]
    /\ UNCHANGED <<embedder, index, documents, disk, ret, args, gen, app>>

\* the values an input flag takes: both where the flag matters, else its default
(***************************************************************************)
(* _get_heading_level and _is_document_title (lines 107-133, 155-181).  A  *)
(* line is a sequence of characters; re.match anchors a pattern at the     *)
(* start of the line only.                                                 *)
(***************************************************************************)
MaxLineLen == 5     \* longest line built from HeadingChars

UpperCase ==
    <<"A", "B", "C", "D", "E", "F", "G", "H", "I", "J", "K", "L", "M",
      "N", "O", "P", "Q", "R", "S", "T", "U", "V", "W", "X", "Y", "Z">>
LowerCase ==
    <<"a", "b", "c", "d", "e", "f", "g", "h", "i", "j", "k", "l", "m",
      "n", "o", "p", "q", "r", "s", "t", "u", "v", "w", "x", "y", "z">>

\* the classes [A-Z\s\-&()] and [a-zA-Z\s\-&()], and \d
CapsClass == Range(UpperCase) \cup Whitespace \cup {"-", "&", "(", ")"}
TitleClass == CapsClass \cup Range(LowerCase)
IsDigit(c) == c \in Range(Digits)

\* every character of s from place from to place to is of the class
AllIn(s, from, to, class) == \A i \in from..to : s[i] \in class

\* len(line.split()): the runs of characters that are not whitespace
WordCount(line) ==
    Cardinality({i \in 1..Len(line) :
                    /\ line[i] \notin Whitespace
                    /\ (i = 1 \/ line[i - 1] \in Whitespace)})

\* (?:v?\d+\.?\d*\.?\d*)?$ on the rest of a line
VersionTail(s) ==
    \/ s = <<>>
    \/ LET t == IF s[1] = "v" THEN Tail(s) ELSE s
       IN  /\ t # <<>>
           /\ IsDigit(t[1])
           /\ \A i \in 1..Len(t) : IsDigit(t[i]) \/ t[i] = "."
           /\ Cardinality({i \in 1..Len(t) : t[i] = "."}) <= 2

\* the words of the pattern of line 122
TitleKeywords ==
    {<<"U", "s", "e", "r">>,
     <<"I", "n", "s", "t", "a", "l", "l", "a", "t", "i", "o", "n">>,
     <<"C", "o", "n", "f", "i", "g", "u", "r", "a", "t", "i", "o", "n">>,
     <<"G", "u", "i", "d", "e">>,
     <<"M", "a", "n", "u", "a", "l">>,
     <<"H", "a", "n", "d", "b", "o", "o", "k">>}

\* the four patterns of lines 114-123, in their order
TitlePattern(line, pattern) ==
    LET n == Len(line)
    IN  /\ n >= 2
        /\ line[1] \in Range(UpperCase)
        /\ CASE pattern = 1 -> AllIn(line, 2, n, CapsClass)
             [] pattern = 2 -> AllIn(line, 2, n, TitleClass)
             [] pattern = 3 ->
                   \E k \in 2..n : /\ AllIn(line, 2, k, TitleClass)
                                   /\ VersionTail(SubSeq(line, k + 1, n))
             [] OTHER ->
                   \E k \in 2..n, word \in TitleKeywords :
                      /\ AllIn(line, 2, k, TitleClass)
                      /\ StartsWith(SubSeq(line, k + 1, n), word)

\* _is_document_title, lines 107-133
IsDocumentTitle(line, line_index) ==
    IF Len(line) < 5 \/ Len(line) > 200 THEN FALSE
    ELSE \/ \E pattern \in 1..4 : TitlePattern(line, pattern) /\ WordCount(line) <= 15
         \/ (line_index <= 2 /\ WordCount(line) >= 3)

\* str.lower() on a line, for re.IGNORECASE
LowerLine(line) ==
    [i \in 1..Len(line) |->
        IF line[i] \in Range(UpperCase)
        THEN LowerCase[CHOOSE k \in 1..26 : UpperCase[k] = line[i]]
        ELSE line[i]]

ChapterWords ==
    {<<"c", "h", "a", "p", "t", "e", "r">>, <<"s", "e", "c", "t", "i", "o", "n">>,
     <<"p", "a", "r", "t">>}

\* ^(?:Chapter|Section|Part)\s+\d+ with re.IGNORECASE, line 162
ChapterPattern(line) ==
    \E word \in ChapterWords :
       /\ StartsWith(LowerLine(line), word)
       /\ \E j \in (Len(word) + 1)..(Len(line) - 1) :
             /\ AllIn(line, Len(word) + 1, j, Whitespace)
             /\ IsDigit(line[j + 1])

\* the digits a line starts with
RECURSIVE DigitRun(_)
DigitRun(s) == IF s = <<>> \/ ~IsDigit(Head(s)) THEN 0 ELSE 1 + DigitRun(Tail(s))

\* ^\d+\.\d+ (parts = 2, line 166) and ^\d+\.\d+\.\d+ (parts = 3, line 170)
RECURSIVE SectionNumber(_, _)
SectionNumber(s, parts) ==
    LET d == DigitRun(s)
    IN  /\ d > 0
        /\ \/ parts = 1
           \/ /\ Len(s) > d
              /\ s[d + 1] = "."
              /\ SectionNumber(SubSeq(s, d + 2, Len(s)), parts - 1)

\* ^[A-Z\s\-&()]{3,50}$ and ^[A-Z][a-zA-Z\s\-&()]{3,50}$, lines 174 and 178
CapsLine(line) == Len(line) \in 3..50 /\ AllIn(line, 1, Len(line), CapsClass)
TitleCaseLine(line) ==
    /\ Len(line) - 1 \in 3..50
    /\ line[1] \in Range(UpperCase)
    /\ AllIn(line, 2, Len(line), TitleClass)

\* _get_heading_level, lines 155-181: the rules in the order of the code
GetHeadingLevel(line, line_index) ==
    CASE IsDocumentTitle(line, line_index) -> 1
      [] ~IsDocumentTitle(line, line_index) /\ ChapterPattern(line) -> 2
      [] OTHER ->
           IF SectionNumber(line, 2) THEN 3
           ELSE IF SectionNumber(line, 3) THEN 4
           ELSE IF CapsLine(line) /\ WordCount(line) <= 8 THEN 5
           ELSE IF TitleCaseLine(line) /\ WordCount(line) <= 6 THEN 6
           ELSE 0

\* the lines _extract_enhanced_headings passes on: stripped and not empty;
\* those of HeadingChars, and lines of a chapter and of titles
HeadingChars == {"1", ".", "A", "b", " "}

SampleLines ==
    {<<"p", "a", "r", "t", " ", "1">>, <<"P", "a", "r", "t", " ", "1">>,
     <<"P", "A", "R", "T", " ", " ", "2", ":">>,
     <<"A", " ", "U", "s", "e", "r", "1">>,
     <<"1", ".", "1", ".", "1", " ", "A", " ", "b">>,
     <<"1", ".", "2", " ", "A", " ", "b">>}

HeadingLines ==
    SampleLines \cup
    {line \in UNION {[1..n -> HeadingChars] : n \in 1..MaxLineLen} :
        Strip(line) = line}

\* the places of a line in its text: among the first three lines, or later
LineIndexes == {2, 3}

HeadingCall(line, line_index) ==
    [fn |-> "_get_heading_level", line |-> line, index |-> line_index,
     returned |-> FALSE, level |-> 0]

get_heading_level ==
    /\ call.fn = "_get_heading_level"
    /\ ~call.returned
    /\ call' = [call EXCEPT !.returned = TRUE,
                            !.level = GetHeadingLevel(call.line, call.index)]
    /\ UNCHANGED <<embedder, index, documents, disk, ret, args, gen, app>>

(***************************************************************************)
(* index_documents and delete_document a statement at a time, as a thread  *)
(* that queries the pipeline meanwhile finds it: between the assignments   *)
(* to self.documents and to self.index, and before the files are written.  *)
(* call holds the operation that is running and where it is.               *)
(***************************************************************************)
Running(fn, pc) == [fn |-> fn, pc |-> pc]

\* index_documents without failures: lines 460-532 (the files are loaded and
\* their chunks appended to the store), lines 536-559 (every text of the
\* store is embedded and the rows are added to the index), lines 567-591
\* (the index and the store are written)
index_documents_steps ==
    /\ call.fn \in {"none", "index_documents"}
    /\ IF call.fn = "none"
       THEN \E file_paths \in PathLists \ {<<>>} :
               /\ Len(documents) + Len(ExtractAll(file_paths, {})) <= MaxDocs
               /\ RowCount(index) + Len(documents)
                     + Len(ExtractAll(file_paths, {})) <= MaxRows
               /\ documents' = documents \o ExtractAll(file_paths, {})
               /\ call' = Running("index_documents", "embed")
               /\ UNCHANGED <<embedder, index, disk>>
       ELSE IF call.pc = "embed"
       THEN /\ embedder' = TRUE
            /\ index' = IndexAdd(IF index.present THEN index ELSE IndexFlatL2,
                                 EmbeddingsToAdd(documents, <<>>))
            /\ call' = Running("index_documents", "save")
            /\ UNCHANGED <<documents, disk>>
       ELSE /\ disk' = SaveWithBackup(disk, index, documents, "none", FALSE).disk
            /\ call' = NoCall
            /\ UNCHANGED <<embedder, index, documents>>
    /\ ret' = Call("index_documents", "", "none",
                   IF call'.fn = "none" THEN "ok" ELSE "running")
    /\ UNCHANGED <<args, gen, app>>

\* delete_document without failures of the disk: lines 860-877 (the chunks
\* of the file are dropped from the store), lines 880-886 and 895 (the index
\* is rebuilt from the store, which raises when no embedding model is
\* loaded, or dropped), lines 889 and 896 (the files are written or removed)
delete_document_steps ==
    /\ call.fn \in {"none", "delete_document"}
    /\ IF call.fn = "none"
       THEN \E filename \in Files :
               /\ documents # <<>>
               /\ Matches(documents, filename)
               /\ documents' = Remaining(documents, filename)
               /\ call' = Running("delete_document", "rebuild")
               /\ ret' = Call("delete_document", filename, "none", "running")
               /\ UNCHANGED <<embedder, index, disk>>
       ELSE IF call.pc = "rebuild"
       THEN /\ IF documents = <<>>
               THEN /\ index' = NoIndex
                    /\ call' = Running("delete_document", "save")
                    /\ ret' = Call("delete_document", "", "none", "running")
               ELSE IF ~embedder
               THEN /\ UNCHANGED index
                    /\ call' = NoCall
                    /\ ret' = Call("delete_document", "", "none", "False")
               ELSE /\ index' = RebuildIndex(documents)
                    /\ call' = Running("delete_document", "save")
                    /\ ret' = Call("delete_document", "", "none", "running")
            /\ UNCHANGED <<embedder, documents, disk>>
       ELSE /\ disk' = IF documents = <<>>
                       THEN ClearVectorStore(disk, "none").disk
                       ELSE SaveIndexAndDocs(disk, index, documents, "none", FALSE).disk
            /\ call' = NoCall
            /\ ret' = Call("delete_document", "", "none", "True")
            /\ UNCHANGED <<embedder, index, documents>>
    /\ UNCHANGED <<args, gen, app>>

Flag(matters, default) == IF matters THEN BOOLEAN ELSE {default}

(***************************************************************************)
(* The automatic indexing of app.py: the startup call of                   *)
(* start_auto_indexing_thread (line 179), the /auto_index requests (lines  *)
(* 601-619) and the threads they start, which run                          *)
(* auto_index_unindexed_files (lines 97-150).  The server handles each     *)
(* request in a thread of its own, and a thread may be preempted between   *)
(* any two statements: a step is one read or one write of a global.  The   *)
(* module is loaded with a Config that names the default provider, whose   *)
(* pipeline the threads index into; index_documents runs as one step.      *)
(***************************************************************************)
MaxRequests == 2    \* most /auto_index requests made

\* who calls start_auto_indexing_thread: 0 is the startup, the others the
\* requests; the Thread object a caller makes has the caller's number plus 1
Callers == 0..MaxRequests
Threads == 1..(MaxRequests + 1)

\* the PDFs of the upload folder
UploadFolder == {"b.pdf"}

NoThread == 0

\* an /upload request and the Thread run_with_timeout makes for it, a
\* /delete request, and a /delete_all request, none of them made yet
NoUpload == [pc |-> "idle", file |-> "", worker |-> "unborn", error |-> FALSE,
             status |-> 0]
NoDelete == [pc |-> "idle", filename |-> "", status |-> 0]

\* the module as loaded, initialize_pipelines about to call
\* start_auto_indexing_thread: _indexing_in_progress (line 19),
\* _indexing_thread (line 20), where each caller is, each Thread with the
\* unindexed files it found and those of them it could not load, whether
\* _rag_pipelines holds the default provider's pipeline (line 173), the PDFs
\* of the upload folder, the requests that change them, the provider of
\* the session (line 197) and the pipeline cached for each provider
AppLoaded ==
    [flag |-> FALSE,
     thread |-> NoThread,
     callers |-> [c \in Callers |-> IF c = 0 THEN "alive" ELSE "idle"],
     threads |-> [t \in Threads |-> [pc |-> "unborn", files |-> {}, bad |-> {}]],
     cached |-> TRUE,
     folder |-> UploadFolder,
     upload |-> NoUpload,
     delete |-> NoDelete,
     clear |-> "idle",
     session |-> "ollama",
     pipelines |-> [provider \in Providers |->
                       [cached |-> provider = "ollama", embedder |-> FALSE,
                        index |-> NoIndex, documents |-> <<>>]]]

\* the module as loaded when RAGPipeline raised in initialize_pipelines
\* (lines 181-188): no pipeline is cached and no Thread was started
AppFailed == [AppLoaded EXCEPT !.cached = FALSE, !.callers[0] = "done"]

\* Thread.is_alive(): started and not yet ended
IsAlive(t) == app.threads[t].pc \notin {"unborn", "created", "dead"}

\* get_indexed_files (lines 47-72) and get_unindexed_files (lines 74-95)
IndexedFiles ==
    IF app.cached
    THEN {documents[i].metadata.filename : i \in 1..Len(documents)}
    ELSE {}
UnindexedFiles == app.folder \ IndexedFiles

\* a request reaches the server, which serves once the module is loaded
request(c) ==
    /\ c # 0
    /\ app.callers[c] = "idle"
    /\ app.callers[0] = "done"
    /\ app' = [app EXCEPT !.callers[c] = "flag"]
    /\ UNCHANGED <<embedder, index, documents, disk, ret, args, gen, call>>

\* trigger_auto_index, line 606: the flag is read; set, the request is
\* answered 'in_progress'
trigger_auto_index(c) ==
    /\ app.callers[c] = "flag"
    /\ app' = [app EXCEPT !.callers[c] = IF app.flag THEN "done" ELSE "alive"]
    /\ UNCHANGED <<embedder, index, documents, disk, ret, args, gen, call>>

\* start_auto_indexing_thread: line 156 (the check of the last Thread made),
\* line 160 (a Thread is made and stored in _indexing_thread), line 161
\* (the Thread that _indexing_thread names then is started; started twice
\* it raises RuntimeError)
start_auto_indexing_thread(c) ==
    /\ app.callers[c] \in {"alive", "create", "start"}
    /\ app' =
          CASE app.callers[c] = "alive" ->
                  [app EXCEPT !.callers[c] =
                      IF app.thread # NoThread /\ IsAlive(app.thread)
                      THEN "done" ELSE "create"]
            [] app.callers[c] = "create" ->
                  [app EXCEPT !.callers[c] = "start",
                              !.thread = c + 1,
                              !.threads[c + 1].pc = "created"]
            [] OTHER ->
                  IF app.threads[app.thread].pc = "created"
                  THEN [app EXCEPT !.callers[c] = "done",
                                   !.threads[app.thread].pc = "check"]
                  ELSE [app EXCEPT !.callers[c] = "done"]
    /\ UNCHANGED <<embedder, index, documents, disk, ret, args, gen, call>>

\* the file_paths of line 126: the unindexed files, in some order
PathsOf(files) == {paths \in PathLists : Range(paths) = files}

\* the failures of index_documents a pass may meet
AutoIndexFaults == {"none", "embed"}

\* Mutant of SkipPass: the early return runs the finally of line 150.
SkipPassClearingFlag(a, t) ==
    [a EXCEPT !.flag = FALSE, !.threads[t].pc = "dead"]

\* lines 101-103: the flag is set already and the Thread returns, before the
\* try of line 105
SkipPass(a, t) == [a EXCEPT !.threads[t].pc = "dead"]

\* auto_index_unindexed_files in Thread t, a statement at a time: line 101
\* (the flag is read), line 106 (the flag is set), lines 110-124 (the
\* unindexed files are listed and the pipeline is taken from the cache),
\* line 134 (index_documents is entered and loads the files that are still
\* in the folder, lines 460-523; then it changes the store, the index and
\* the files on disk, lines 524-617), line 141 (the files are listed again),
\* line 150 (the flag is cleared)
auto_index_unindexed_files(t) ==
    LET pc == app.threads[t].pc
        to(next) == [app EXCEPT !.threads[t].pc = next]
    IN  /\ pc \in {"check", "set", "list", "index", "indexing", "verify", "finally"}
        /\ IF pc = "indexing"
           THEN \E file_paths \in PathsOf(app.threads[t].files),
                   fault \in AutoIndexFaults :
                   \E loads \in Flag(fault = "embed" /\ ~embedder, FALSE) :
                      /\ index_documents(file_paths, app.threads[t].bad, fault,
                                         FALSE, loads, TRUE)
                      /\ app' = to(IF ret'.outcome = "ok" THEN "verify"
                                   ELSE "finally")
           ELSE /\ app' =
                     CASE pc = "check" ->
                             IF app.flag THEN SkipPass(app, t) ELSE to("set")
                       [] pc = "set" ->
                             [app EXCEPT !.flag = TRUE, !.threads[t].pc = "list"]
                       [] pc = "list" ->
                             [app EXCEPT !.threads[t].files = UnindexedFiles,
                                         !.threads[t].pc =
                                             IF UnindexedFiles = {} \/ ~app.cached
                                             THEN "finally" ELSE "index"]
                       [] pc = "index" ->
                             [app EXCEPT !.threads[t].bad =
                                             app.threads[t].files \ app.folder,
                                         !.threads[t].pc = "indexing"]
                       [] pc = "verify" -> to("finally")
                       [] OTHER ->
                             [app EXCEPT !.flag = FALSE, !.threads[t].pc = "dead"]
                /\ UNCHANGED <<embedder, index, documents, disk, ret>>
        /\ UNCHANGED <<args, gen, call>>

\* no thread is inside an operation of the cached pipeline or about to call
\* one: the model follows one pipeline object, so a pipeline is made on
\* demand only when no thread holds the one that was cached before
NoneHoldsPipeline ==
    /\ \A t \in Threads : app.threads[t].pc \notin {"index", "indexing"}
    /\ app.upload.worker \notin {"index", "indexing"}
    /\ app.delete.pc # "deleting"
    /\ app.clear # "clearing"

\* upload_file (lines 277-390) for one request, a statement at a time: line
\* 303 (the duplicate check), line 332 (the file is saved), lines 341-353
\* (get_rag_pipeline, lines 195-226, makes the pipeline when none is cached;
\* run_with_timeout starts its Thread), lines 36-45 and 355-386 (join ends
\* with the Thread dead, or times out with the Thread alive), lines 359 and
\* 366 (the saved file is removed)
upload_file ==
    LET u == app.upload
        to(next) == [app EXCEPT !.upload.pc = next]
    IN  /\ app.callers[0] = "done"
        /\ u.pc \in {"idle", "exists", "save", "pipeline", "join", "remove"}
        /\ IF u.pc = "pipeline" /\ ~app.cached
           THEN /\ NoneHoldsPipeline
                /\ Construct("none")
                /\ app' = [app EXCEPT !.cached = TRUE, !.upload.pc = "join",
                                      !.upload.worker = "index"]
           ELSE /\ CASE u.pc = "idle" ->
                          \E file \in Files :
                             app' = [app EXCEPT !.upload.pc = "exists",
                                                !.upload.file = file]
                     [] u.pc = "exists" ->
                          app' = IF u.file \in app.folder
                                 THEN [app EXCEPT !.upload.pc = "done",
                                                  !.upload.status = 409]
                                 ELSE to("save")
                     [] u.pc = "save" ->
                          app' = [app EXCEPT !.folder = @ \cup {u.file},
                                             !.upload.pc = "pipeline"]
                     [] u.pc = "pipeline" ->
                          app' = [app EXCEPT !.upload.pc = "join",
                                             !.upload.worker = "index"]
                     [] u.pc = "join" ->
                          app' = IF u.worker # "dead"
                                 THEN [app EXCEPT !.upload.pc = "remove",
                                                  !.upload.status = 408]
                                 ELSE IF u.error
                                 THEN [app EXCEPT !.upload.pc = "remove",
                                                  !.upload.status = 500]
                                 ELSE [app EXCEPT !.upload.pc = "done",
                                                  !.upload.status = 200]
                     [] OTHER ->
                          app' = [app EXCEPT !.folder = @ \ {u.file},
                                             !.upload.pc = "done"]
                /\ UNCHANGED <<embedder, index, documents, disk, ret>>
        /\ UNCHANGED <<args, gen, call>>

\* target of run_with_timeout (lines 27-31), the Thread of the upload:
\* index_documents([file_path]) is entered and loads the file if it is still
\* in the folder (lines 460-523), then changes the store, the index and the
\* files on disk (lines 524-617); the Thread ends with the result or the
\* exception, whether or not join has timed out
target ==
    LET u == app.upload
    IN  /\ u.worker \in {"index", "indexing"}
        /\ IF u.worker = "index" /\ u.file \in app.folder
           THEN /\ app' = [app EXCEPT !.upload.worker = "indexing"]
                /\ UNCHANGED <<embedder, index, documents, disk, ret>>
           ELSE \E fault \in AutoIndexFaults :
                   \E loads \in Flag(fault = "embed" /\ ~embedder, FALSE) :
                      /\ index_documents(<<u.file>>,
                                         IF u.worker = "index" THEN {u.file} ELSE {},
                                         fault, FALSE, loads, TRUE)
                      /\ app' = [app EXCEPT !.upload.worker = "dead",
                                            !.upload.error = ret'.outcome # "ok"]
        /\ UNCHANGED <<args, gen, call>>

\* delete_file (lines 504-525) for one request: lines 508-510 (the file is
\* removed from the folder), lines 514-517 (delete_document is entered on
\* the cached pipeline, then changes the store, the index and the files on
\* disk)
delete_file ==
    LET d == app.delete
    IN  /\ app.callers[0] = "done"
        /\ d.pc \in {"idle", "exists", "delete", "deleting"}
        /\ IF d.pc = "deleting"
           THEN /\ delete_document(d.filename, "none", FALSE)
                /\ app' = [app EXCEPT !.delete.pc = "done", !.delete.status = 200]
           ELSE /\ CASE d.pc = "idle" ->
                          \E filename \in Files :
                             app' = [app EXCEPT !.delete.pc = "exists",
                                                !.delete.filename = filename]
                     [] d.pc = "exists" ->
                          app' = IF d.filename \in app.folder
                                 THEN [app EXCEPT !.folder = @ \ {d.filename},
                                                  !.delete.pc = "delete"]
                                 ELSE [app EXCEPT !.delete.pc = "done",
                                                  !.delete.status = 404]
                     [] OTHER ->
                          app' = IF app.cached
                                 THEN [app EXCEPT !.delete.pc = "deleting"]
                                 ELSE [app EXCEPT !.delete.pc = "done",
                                                  !.delete.status = 200]
                /\ UNCHANGED <<embedder, index, documents, disk, ret>>
        /\ UNCHANGED <<args, gen, call>>

\* delete_all_files (lines 527-548) for one request: lines 531-533 (the PDFs
\* are removed from the folder), lines 537-540 (clear_all_documents is
\* entered on the cached pipeline, then empties the store and removes the
\* files on disk), line 545 (the cache is emptied)
delete_all_files ==
    /\ app.callers[0] = "done"
    /\ app.clear \in {"idle", "remove", "clear", "clearing", "reset"}
    /\ IF app.clear = "clearing"
       THEN /\ clear_all_documents("none")
            /\ app' = [app EXCEPT !.clear = "reset"]
       ELSE /\ app' =
                 CASE app.clear = "idle" -> [app EXCEPT !.clear = "remove"]
                   [] app.clear = "remove" ->
                         [app EXCEPT !.folder = {}, !.clear = "clear"]
                   [] app.clear = "clear" ->
                         [app EXCEPT !.clear = IF app.cached THEN "clearing"
                                               ELSE "reset"]
                   [] OTHER -> [app EXCEPT !.cached = FALSE, !.clear = "done"]
            /\ UNCHANGED <<embedder, index, documents, disk, ret>>
    /\ UNCHANGED <<args, gen, call>>

(***************************************************************************)
(* The pipelines of two providers.  _rag_pipelines caches one RAGPipeline  *)
(* per provider; each has a store and an index of its own and all use the  *)
(* directory Config.VECTOR_STORE_PATH (config.py:12, rag_pipeline.py:29).  *)
(* app.pipelines holds them, the variable disk the directory; the          *)
(* operations are the ones above, written on a given pipeline, without     *)
(* failures of the environment.                                            *)
(***************************************************************************)
\* RAGPipeline(model_provider), lines 27-33: what the files hold is loaded
LoadedPipeline(d) ==
    [cached |-> TRUE, embedder |-> FALSE,
     index |-> LoadPair(d, "none").index,
     documents |-> LoadPair(d, "none").documents]

\* index_documents([file]) on pipeline p, lines 531-591
IngestOn(p, d, file) ==
    LET extended == p.documents \o FileChunks(file)
        added == IndexAdd(IF p.index.present THEN p.index ELSE IndexFlatL2,
                          EmbeddingsToAdd(extended, FileChunks(file)))
    IN  [pipeline |-> [p EXCEPT !.embedder = TRUE, !.index = added,
                                !.documents = extended],
         disk |-> SaveWithBackup(d, added, extended, "none", FALSE).disk]

\* delete_document(filename) on pipeline p, lines 858-898
DeleteOn(p, d, filename) ==
    LET remaining_docs == Remaining(p.documents, filename)
    IN  IF ~p.cached \/ p.documents = <<>> \/ ~Matches(p.documents, filename)
        THEN [pipeline |-> p, disk |-> d]
        ELSE IF remaining_docs = <<>>
        THEN [pipeline |-> [p EXCEPT !.documents = <<>>, !.index = NoIndex],
              disk |-> ClearVectorStore(d, "none").disk]
        ELSE IF ~p.embedder
        THEN [pipeline |-> [p EXCEPT !.documents = remaining_docs], disk |-> d]
        ELSE [pipeline |-> [p EXCEPT !.documents = remaining_docs,
                                     !.index = RebuildIndex(remaining_docs)],
              disk |-> SaveIndexAndDocs(d, RebuildIndex(remaining_docs),
                                        remaining_docs, "none", FALSE).disk]

\* select_model (lines 491-502): the session's provider is set and
\* get_rag_pipeline (lines 195-226) makes its pipeline if none is cached
select_model(provider) ==
    /\ app' = [app EXCEPT !.session = provider,
                          !.pipelines[provider] =
                              IF @.cached THEN @ ELSE LoadedPipeline(disk)]
    /\ UNCHANGED <<embedder, index, documents, disk, ret, args, gen, call>>

\* set_model_provider (lines 243-275): the session's provider is set and a
\* new pipeline is cached for it
set_model_provider(provider) ==
    /\ app' = [app EXCEPT !.session = provider,
                          !.pipelines[provider] = LoadedPipeline(disk)]
    /\ UNCHANGED <<embedder, index, documents, disk, ret, args, gen, call>>

\* upload_file (lines 277-390) as one step, on the pipeline of the session's
\* provider: the file is saved and indexed
upload_file_session(file) ==
    LET p == app.pipelines[app.session]
        done == IngestOn(p, disk, file)
    IN  /\ p.cached
        /\ file \notin app.folder
        /\ Len(done.pipeline.documents) <= MaxDocs
        /\ RowCount(done.pipeline.index) <= MaxRows
        /\ app' = [app EXCEPT !.folder = @ \cup {file},
                              !.pipelines[app.session] = done.pipeline]
        /\ disk' = done.disk
        /\ ret' = Call("index_documents", file, "none", "ok")
        /\ UNCHANGED <<embedder, index, documents, args, gen, call>>

\* delete_file (lines 504-525) as one step: the file is removed and
\* delete_document runs on every cached pipeline, in the order of the keys
\* of _rag_pipelines (the default provider's first)
delete_file_pipelines(filename) ==
    LET first == DeleteOn(app.pipelines["ollama"], disk, filename)
        second == DeleteOn(app.pipelines["openai"], first.disk, filename)
    IN  /\ filename \in app.folder
        /\ app' = [app EXCEPT !.folder = @ \ {filename},
                              !.pipelines["ollama"] = first.pipeline,
                              !.pipelines["openai"] = second.pipeline]
        /\ disk' = second.disk
        /\ ret' = Call("delete_document", filename, "none", "True")
        /\ UNCHANGED <<embedder, index, documents, args, gen, call>>

Init ==
    /\ embedder = FALSE
    /\ index = NoIndex
    /\ documents = <<>>
    /\ disk = EmptyDisk
    /\ ret = Call("construct", "", "none", "ok")
    /\ args = NoArgs
    /\ gen = NoGenerator
    /\ call = NoCall
    /\ app = AppLoaded

Next ==
    \/ \E fault \in ConstructFaults :
          Construct(fault) /\ UNCHANGED <<args, gen, call, app>>
    \/ \E file_paths \in PathLists, fault \in IndexFaults :
          \E bad \in SUBSET Range(file_paths),
             partial \in Flag(fault \in IndexSaveFaults, FALSE),
             loads \in Flag(fault = "embed" /\ ~embedder, FALSE),
             rebuild_ok \in Flag(fault \in IndexSaveFaults, TRUE) :
                /\ index_documents(file_paths, bad, fault, partial, loads, rebuild_ok)
                /\ UNCHANGED <<args, gen, call, app>>
    \/ \E filename \in Files, fault \in DeleteFaults :
          \E partial \in Flag(fault \in {"write_index", "write_docs"}, FALSE) :
                delete_document(filename, fault, partial) /\ UNCHANGED <<args, gen, call, app>>
    \/ \E fault \in ClearFaults :
          clear_all_documents(fault) /\ UNCHANGED <<args, gen, call, app>>
    \/ retrieve_documents /\ UNCHANGED <<args, gen, call, app>>

Spec == Init /\ [][Next]_vars

\* The calls of index_documents with their arguments, and the message of the
\* error raised, kept in args; between them the pipeline is loaded again or
\* a file is deleted, without failures of the environment.  A file that
\* loads and yields no chunk adds nothing to all_chunks, as one that fails to
\* load in a call of several files; alone in a call it reaches line 526.
NextIngest ==
    \/ Construct("none") /\ args' = NoArgs /\ UNCHANGED <<gen, call, app>>
    \/ \E file_paths \in PathLists, fault \in IndexFaults :
          \E bad \in SUBSET Range(file_paths),
             partial \in Flag(fault \in IndexSaveFaults, FALSE),
             loads \in Flag(fault = "embed" /\ ~embedder, FALSE),
             rebuild_ok \in Flag(fault \in IndexSaveFaults, TRUE) :
                \E unsplit \in SUBSET (Range(file_paths) \ bad) :
                   /\ index_documents(file_paths, bad \cup unsplit, fault,
                                      partial, loads, rebuild_ok)
                   /\ args' = [file_paths |-> file_paths, bad |-> bad,
                               unsplit |-> unsplit,
                               message |-> IF ret'.outcome = "ok" THEN ""
                                           ELSE RaisedMessage(file_paths, bad,
                                                              unsplit, fault)]
                   /\ UNCHANGED <<gen, call, app>>
    \/ \E filename \in Files :
          delete_document(filename, "none", FALSE) /\ args' = NoArgs /\ UNCHANGED <<gen, call, app>>

SpecIngest == Init /\ [][NextIngest]_vars

\* The pipeline's operations and the queries made on it: an operation runs
\* when no generator is held, with the failures that leave the pipeline
\* without chunks or with an index of no rows.
QueryIndexFaults == {"none", "add", "write_docs"}

NextQuery ==
    \/ /\ gen.pc = "none"
       /\ Construct("none")
       /\ UNCHANGED <<args, gen, call, app>>
    \/ \E file_paths \in PathLists \ {<<>>}, fault \in QueryIndexFaults :
          \E rebuild_ok \in Flag(fault \in IndexSaveFaults, TRUE) :
             /\ gen.pc = "none"
             /\ index_documents(file_paths, {}, fault, FALSE, FALSE, rebuild_ok)
             /\ UNCHANGED <<args, gen, call, app>>
    \/ \E filename \in Files :
          /\ gen.pc = "none"
          /\ delete_document(filename, "none", FALSE)
          /\ UNCHANGED <<args, gen, call, app>>
    \/ \E provider \in Providers, query_text \in Queries, filename \in Files \cup {""} :
          query(provider, query_text, filename)
    \/ \E response \in ProviderResponses, fails \in BOOLEAN :
          query_next(response, fails)
    \/ query_close

SpecQuery == Init /\ [][NextQuery]_vars

\* The pipeline as constructed, with an operation that reads nothing of it
\* about to be called
Constructed ==
    /\ embedder = FALSE
    /\ index = NoIndex
    /\ documents = <<>>
    /\ disk = EmptyDisk
    /\ ret = Call("construct", "", "none", "ok")
    /\ args = NoArgs
    /\ gen = NoGenerator
    /\ app = AppLoaded

\* _split_text on every text of the model, with each pair of sizes
InitSplit ==
    /\ Constructed
    /\ call \in {SplitCall(text, sizes) : text \in Texts, sizes \in SplitSizes}

NextSplit == split_text

SpecSplit == InitSplit /\ [][NextSplit]_vars

\* _extract_document_info on every file of TitledFiles, with each title the
\* metadata and the first page can give
InitTitle ==
    /\ Constructed
    /\ call \in {TitleCall(pdf_title, extracted_title, filename) :
                    pdf_title \in PdfTitles, extracted_title \in ExtractedTitles,
                    filename \in TitledFiles}

NextTitle == extract_document_info

SpecTitle == InitTitle /\ [][NextTitle]_vars

\* the batches a call of these texts is cut into
BatchCount(texts, batch_size) == (Len(texts) + batch_size - 1) \div batch_size

\* _create_embeddings_batch on every list of texts, with each batch size and
\* each place where the memory may run low or the encoding fail
InitEmbed ==
    /\ Constructed
    /\ call \in {EmbedCall(texts, batch_size, low_at, fails_at) :
                    texts \in BatchTexts, batch_size \in BatchSizes,
                    low_at \in 0..MaxBatchTexts, fails_at \in 0..MaxBatchTexts}
    /\ call.low_at <= BatchCount(call.texts, call.batch_size)
    /\ call.fails_at <= BatchCount(call.texts, call.batch_size)

NextEmbed == create_embeddings_batch

SpecEmbed == InitEmbed /\ [][NextEmbed]_vars

\* every PDF of up to MaxPages pages is loaded and cut into Documents
InitPages ==
    /\ Constructed
    /\ call \in {PagesCall(pdf) : pdf \in Pdfs}

NextPages == load_pdf

SpecPages == InitPages /\ [][NextPages]_vars

\* _organize_context on every list of up to MaxContext chunks, in rank order
InitContext ==
    /\ Constructed
    /\ call \in {ContextCall(context_docs) : context_docs \in ContextLists}

NextContext == organize_context

SpecContext == InitContext /\ [][NextContext]_vars

\* _get_heading_level on every line of HeadingLines, at each place
InitHeading ==
    /\ Constructed
    /\ call \in {HeadingCall(line, line_index) :
                    line \in HeadingLines, line_index \in LineIndexes}

NextHeading == get_heading_level

SpecHeading == InitHeading /\ [][NextHeading]_vars

\* The pipeline with one operation running a statement at a time and the
\* retrievals of the queries made meanwhile
NextSteps ==
    \/ index_documents_steps
    \/ delete_document_steps
    \/ retrieve_documents /\ UNCHANGED <<args, gen, call, app>>

SpecSteps == Init /\ [][NextSteps]_vars

\* The threads of app.py, in every interleaving of their statements
NextAutoIndex ==
    \/ \E c \in Callers : request(c)
    \/ \E c \in Callers : trigger_auto_index(c)
    \/ \E c \in Callers : start_auto_indexing_thread(c)
    \/ \E t \in Threads : auto_index_unindexed_files(t)

SpecAutoIndex == Init /\ [][NextAutoIndex]_vars

\* The passes of the automatic indexing, each started Thread going on to take
\* its next step (the threads of the process are scheduled in turn), with the
\* default provider's pipeline cached or with none
InitPasses ==
    /\ embedder = FALSE
    /\ index = NoIndex
    /\ documents = <<>>
    /\ disk = EmptyDisk
    /\ ret = Call("construct", "", "none", "ok")
    /\ args = NoArgs
    /\ gen = NoGenerator
    /\ call = NoCall
    /\ app \in {AppLoaded, AppFailed}

SpecPasses ==
    /\ InitPasses
    /\ [][NextAutoIndex]_vars
    /\ \A t \in Threads : WF_vars(auto_index_unindexed_files(t))

\* The server: the startup pass, an /upload, a /delete and a /delete_all
\* request, in every interleaving of their statements; the folder holds
\* b.pdf, not yet indexed, or no file
InitServer ==
    /\ embedder = FALSE
    /\ index = NoIndex
    /\ documents = <<>>
    /\ disk = EmptyDisk
    /\ ret = Call("construct", "", "none", "ok")
    /\ args = NoArgs
    /\ gen = NoGenerator
    /\ call = NoCall
    /\ app \in {[AppLoaded EXCEPT !.folder = folder] : folder \in {{}, UploadFolder}}

NextServer ==
    \/ start_auto_indexing_thread(0)
    \/ \E t \in Threads : auto_index_unindexed_files(t)
    \/ upload_file
    \/ target
    \/ delete_file
    \/ delete_all_files

SpecServer == InitServer /\ [][NextServer]_vars

\* The requests that choose a provider, upload and delete, one at a time,
\* on an empty upload folder
InitProviders ==
    /\ embedder = FALSE
    /\ index = NoIndex
    /\ documents = <<>>
    /\ disk = EmptyDisk
    /\ ret = Call("construct", "", "none", "ok")
    /\ args = NoArgs
    /\ gen = NoGenerator
    /\ call = NoCall
    /\ app = [AppLoaded EXCEPT !.folder = {}, !.callers[0] = "done"]

NextProviders ==
    \/ \E provider \in Providers : select_model(provider)
    \/ \E provider \in Providers : set_model_provider(provider)
    \/ \E file \in Files : upload_file_session(file)
    \/ \E filename \in Files : delete_file_pipelines(filename)

SpecProviders == InitProviders /\ [][NextProviders]_vars

(***************************************************************************)
(* Properties.  ret names the call that led to the current state; in an    *)
(* action formula ret' names the call the step is.                         *)
(***************************************************************************)
Returned == ret.outcome \in {"ok", "True", "False"}

NoneFrom(docs, filename) ==
    \A i \in 1..Len(docs) : docs[i].metadata.filename # filename

\* C1: after every index_documents, delete_document or clear_all_documents
\* call that returns, the Document Store holds as many chunks as the Vector
\* Index holds rows (an absent index counts as 0 rows).
C1_StoreIndexAligned ==
    (ret.op \in {"index_documents", "delete_document", "clear_all_documents"}
        /\ Returned)
    => Len(documents) = RowCount(index)

\* C2: a successful index_documents call appends to the index exactly the
\* embeddings of the chunks it added to the store, in their order, after the
\* rows that were there, which it leaves as they were.
C2_AppendsNewRows ==
    [][(ret'.op = "index_documents" /\ ret'.outcome = "ok")
        => /\ Len(documents') >= Len(documents)
           /\ index'.present
           /\ index'.rows = index.rows \o
                EncodeAll(SubSeq(documents', Len(documents) + 1, Len(documents')))]_vars

\* C3: an index_documents call that fails, at whatever step, leaves the
\* in-memory Document Store exactly as it was before the call, and the error
\* that reaches the caller is a ValueError.
C3_FailureRollsBack ==
    [][(ret'.op = "index_documents" /\ ret'.outcome # "ok")
        => (documents' = documents /\ ret'.outcome = "ValueError")]_vars

\* C3 witness: a call failed while persisting, after the store had been
\* extended, on a pipeline whose store was not empty.
C3_Witness ==
    /\ ret.op = "index_documents"
    /\ ret.outcome = "ValueError"
    /\ ret.fault = "write_docs"
    /\ documents # <<>>

\* C4: index_documents and delete_document change the two persisted artifacts
\* together or not at all: when a write of either fails the directory is what
\* it was before the call, and when the call persists both files are the new
\* ones and no backup remains.
C4_PersistAllOrNothing ==
    [][(ret'.op \in {"index_documents", "delete_document"})
        => /\ (ret'.fault \in {"write_index", "write_docs"}) => disk' = disk
           /\ (ret'.outcome \in {"ok", "True"} /\ documents' # <<>>)
                => /\ disk'.index = WriteIndex(index')
                   /\ disk'.docs = PickleDump(documents')
                   /\ ~Exists(disk'.index_backup)
                   /\ ~Exists(disk'.docs_backup)]_vars

\* C5: a pipeline constructed over a persisted pair whose chunk count differs
\* from the index's row count starts empty: no index, empty Document Store.
C5_MismatchedPairStartsEmpty ==
    (/\ ret.op = "construct"
     /\ disk.index.st = "ok"
     /\ disk.docs.st = "ok"
     /\ Len(disk.docs.data) # disk.index.data[2])
    => (index = NoIndex /\ documents = <<>>)

\* C6: a pipeline constructed when only one artifact exists, or when either
\* fails to load, starts with no index and an empty Document Store; a fresh
\* pipeline never holds an index without chunks or chunks without an index.
C6_NoPartialLoad ==
    (ret.op = "construct")
    => /\ (\/ Exists(disk.index) # Exists(disk.docs)
           \/ disk.index.st = "corrupt"
           \/ disk.docs.st = "corrupt"
           \/ ret.fault # "none")
          => (index = NoIndex /\ documents = <<>>)
       /\ index.present <=> (documents # <<>>)

\* C6 witness: a pipeline was constructed over a readable index file and a
\* documents file that fails to load.
C6_Witness ==
    /\ ret.op = "construct"
    /\ disk.index.st = "ok"
    /\ disk.docs.st = "corrupt"

\* C7: after an index_documents or delete_document call that returns success,
\* a pipeline constructed from the persisted artifacts has the same Document
\* Store and the same index rows as the one in memory.
C7_ReloadRoundTrip ==
    (ret.op \in {"index_documents", "delete_document"}
        /\ ret.outcome \in {"ok", "True"})
    => LoadPair(disk, "none") = [index |-> index, documents |-> documents]

\* C8: after delete_document(f) returns, no chunk of the Document Store has
\* filename f, and no retrieve, whatever the query, top_k and filename filter,
\* returns a chunk with filename f.
C8_DeletedFileGone ==
    (ret.op = "delete_document")
    => /\ NoneFrom(documents, ret.filename)
       /\ \A query_text \in Queries, top_k \in 1..MaxTopK, filename \in Files \cup {""} :
             NoneFrom(Retrieve(query_text, top_k, filename), ret.filename)

\* C8 witness: a delete removed a file and retrieval still returns chunks of
\* another one.
C8_Witness ==
    /\ ret.op = "delete_document"
    /\ ret.outcome = "True"
    /\ \E query_text \in Queries : Retrieve(query_text, 1, "") # <<>>

\* C9: a delete_document call that finds a matching chunk and meets no failure
\* of the environment leaves an index rebuilt from the survivors, one row each
\* in store order, and persisted artifacts that hold exactly the survivors
\* (both absent when none survives), also on a pipeline loaded from disk that
\* has not embedded anything yet.
C9_DeleteRebuildsAndPersists ==
    [][(/\ ret'.op = "delete_document"
        /\ ret'.fault = "none"
        /\ ~NoneFrom(documents, ret'.filename))
        => IF documents' = <<>>
           THEN index' = NoIndex /\ ~Exists(disk'.index) /\ ~Exists(disk'.docs)
           ELSE /\ index' = [present |-> TRUE, rows |-> EncodeAll(documents')]
                /\ disk'.index = WriteIndex(index')
                /\ disk'.docs = PickleDump(documents')]_vars

\* C10: delete_document(filename) on a store without a chunk of that filename
\* (an empty store included) returns False and leaves the Document Store, the
\* Vector Index and the persisted artifacts as they were.
C10_DeleteNoMatchNoEffect ==
    [][(ret'.op = "delete_document" /\ NoneFrom(documents, ret'.filename))
        => (ret'.outcome = "False" /\ UNCHANGED <<documents, index, disk>>)]_vars

\* C10 witness: delete_document returned False with the embedding model loaded
\* and no failure injected, which only the no-match return does, on a pipeline
\* holding chunks and persisted files.
C10_Witness ==
    /\ ret.op = "delete_document"
    /\ ret.outcome = "False"
    /\ ret.fault = "none"
    /\ embedder
    /\ documents # <<>>
    /\ Exists(disk.index)

\* C11 as stated: after clear_all_documents returns, whatever it returns, the
\* Document Store is empty, the Vector Index is absent and neither persisted
\* artifact exists.
C11_ClearLeavesNoArtifact ==
    (ret.op = "clear_all_documents")
    => /\ Len(documents) = 0
       /\ index = NoIndex
       /\ ~Exists(disk.index)
       /\ ~Exists(disk.docs)

\* C11, amended: after clear_all_documents returns, the Document Store is
\* empty and the Vector Index is absent; when it returns True neither
\* persisted artifact exists, and it returns False only when removing an
\* artifact failed.
C11_ClearEmptiesAll ==
    (ret.op = "clear_all_documents")
    => /\ Len(documents) = 0
       /\ index = NoIndex
       /\ (ret.outcome = "True") => (~Exists(disk.index) /\ ~Exists(disk.docs))
       /\ (ret.outcome = "False") => (ret.fault # "none")

\* C11 witness: clear_all_documents returned True on a pipeline that had
\* embedded chunks before.
C11_Witness ==
    /\ ret.op = "clear_all_documents"
    /\ ret.outcome = "True"
    /\ embedder
\* C16: retrieve with a file name returns only chunks of that file, whatever
\* the store, the query and top_k, and returns the empty sequence when the
\* store holds no chunk of that file.
C16_FilterByFilename ==
    \A query_text \in Queries, top_k \in 1..MaxTopK, filename \in Files \cup {"c.pdf"} :
        LET found == Retrieve(query_text, top_k, filename)
        IN  /\ \A i \in 1..Len(found) : found[i].metadata.filename = filename
            /\ NoneFrom(documents, filename) => found = <<>>

\* C16 witness: on a store holding chunks of both files, a retrieve without a
\* file name returns chunks of both and the one filtered by b.pdf returns
\* some.
C16_Witness ==
    /\ ret.op = "retrieve"
    /\ \E query_text \in Queries :
          /\ Retrieve(query_text, MaxTopK, "b.pdf") # <<>>
          /\ ~NoneFrom(Retrieve(query_text, MaxTopK, ""), "a.pdf")
          /\ ~NoneFrom(Retrieve(query_text, MaxTopK, ""), "b.pdf")

\* the places of a store whose chunks are among the k nearest to a query:
\* fewer than k chunks of the store lie nearer
NearestChunks(docs, query_text, k) ==
    LET dist(p) == Distance(Embed(docs[p].content), Embed(query_text))
    IN  {p \in 1..Len(docs) :
            Cardinality({j \in 1..Len(docs) : dist(j) < dist(p)}) < k}

\* the places of a store whose chunks are in the pool of k however chunks at
\* equal distance are ordered: fewer than k other chunks lie as near
SurelyNearest(docs, query_text, k) ==
    LET dist(p) == Distance(Embed(docs[p].content), Embed(query_text))
    IN  {p \in 1..Len(docs) :
            Cardinality({j \in 1..Len(docs) \ {p} : dist(j) <= dist(p)}) < k}

\* what C17 says of one result of retrieve on a store; filename = "" is no
\* filter
PoolRankOrder(docs, found, query_text, top_k, filename) ==
    LET dist(p) == Distance(Embed(docs[p].content), Embed(query_text))
        k == Min(2 * top_k, Len(docs))
        pool == NearestChunks(docs, query_text, k)
    IN  /\ Len(found) <= top_k
        /\ \A p \in SurelyNearest(docs, query_text, k) :
              (filename \in {"", docs[p].metadata.filename})
              => \/ \E i \in 1..Len(found) : found[i] = docs[p]
                 \/ /\ Len(found) = top_k
                    /\ Score(query_text, docs[p].content)
                          <= Score(query_text, found[top_k].content)
        /\ \A i \in 1..(Len(found) - 1) :
              Score(query_text, found[i].content) >= Score(query_text, found[i + 1].content)
        /\ \E pos \in [1..Len(found) -> 1..Len(docs)] :
              /\ \A i \in 1..Len(found) : found[i] = docs[pos[i]] /\ pos[i] \in pool
              /\ \A i, j \in 1..Len(found) :
                    /\ (pos[i] = pos[j]) => (i = j)
                    /\ (i < j /\ Score(query_text, found[i].content)
                                    = Score(query_text, found[j].content))
                          => dist(pos[i]) <= dist(pos[j])

\* C17: retrieve returns at most top_k chunks, the best-scored (of the file
\* asked for) among the min(2*top_k, store size) chunks nearest to the query,
\* in order of non-increasing lexical score, chunks of equal score in the
\* order of their distance.
C17_PoolRankOrder ==
    \A query_text \in Queries, top_k \in 1..MaxTopK, filename \in Files \cup {""} :
        PoolRankOrder(documents, Retrieve(query_text, top_k, filename),
                      query_text, top_k, filename)

\* text holds sub at some place
Occurs(sub, text) ==
    \E start \in 1..(Len(text) + 1) :
        \A i \in 1..Len(sub) :
            start + i - 1 <= Len(text) /\ text[start + i - 1] = sub[i]

\* the score C18 states, from the texts
StatedScore(query_text, content) ==
    LET words == SplitWords(Lower(query_text))
        counted == {word \in words : Len(word) > 2 /\ Occurs(word, Lower(content))}
    IN  (IF Occurs(Lower(query_text), Lower(content)) THEN 10 ELSE 0)
        + Cardinality(counted)
        + (IF Occurs(<<"#", "#">>, content)
              /\ \E word \in words : Occurs(word, Lower(content))
           THEN 3 ELSE 0)

\* C18: the score the re-ranker gives a chunk for a query is 10 if the
\* lower-cased query occurs in the lower-cased chunk, plus 1 for each distinct
\* query word longer than 2 characters that occurs in the chunk, plus 3 if the
\* chunk holds a heading marker and some query word occurs in it.
C18_LexicalScore ==
    \A query_text \in ScoredQueries, i \in 1..Len(documents) :
        Score(query_text, documents[i].content)
            = StatedScore(Text(query_text), Text(documents[i].content))

\* C18 witness: the store holds a chunk with a heading marker and chunks
\* without, and the scores are those worked out by hand: "set up" scores
\* 10+1+3 on "## Set up", 10+1 on "Set up" and 1 on "run set"; "up" scores
\* 10+3 on "## Set up".
C18_Witness ==
    /\ {documents[i].content : i \in 1..Len(documents)} = {"a0", "a1", "b0"}
    /\ Score("q_set_up", "a0") = 14
    /\ Score("q_set_up", "b0") = 11
    /\ Score("q_set_up", "a1") = 1
    /\ Score("q_up", "a0") = 13
    /\ Score("q_run", "a1") = 11

(***************************************************************************)
(* Properties of index_documents by its arguments, under SpecIngest: args' *)
(* holds the file_paths of the call the step is and the files that failed. *)
(***************************************************************************)
\* the chunks of the files given, file after file
RECURSIVE ChunksOf(_)
ChunksOf(files) ==
    IF files = <<>> THEN <<>> ELSE FileChunks(Head(files)) \o ChunksOf(Tail(files))

\* C19: in an index_documents call that meets no other failure, a file that
\* fails to load is skipped and the other files of the call are indexed, in
\* their order, when the call names more than one file; when it names that
\* file alone the file's error is raised and nothing is indexed.  No call
\* returns normally having added no chunk.
C19_FailedFileSkipped ==
    [][(ret'.op = "index_documents")
        => LET loaded == SelectSeq(args'.file_paths,
                                   LAMBDA f : f \notin args'.bad \cup args'.unsplit)
           IN  /\ (ret'.fault = "none" /\ args'.bad # {} /\ Len(args'.file_paths) > 1
                      /\ loaded # <<>>)
                    => /\ ret'.outcome = "ok"
                       /\ documents' = documents \o ChunksOf(loaded)
                       /\ index'.present
               /\ (ret'.fault = "none" /\ args'.bad # {} /\ Len(args'.file_paths) = 1)
                    => /\ ret'.outcome = "ValueError"
                       /\ args'.message = "Failed to process file"
                       /\ UNCHANGED <<documents, index, disk>>
               /\ (ret'.outcome = "ok") => Len(documents') > Len(documents)]_vars

\* C19 witness: a call naming two files, one of which failed to load, has
\* returned on a pipeline that held chunks before.
C19_Witness ==
    /\ ret.op = "index_documents"
    /\ ret.outcome = "ok"
    /\ Len(args.file_paths) = 2
    /\ args.bad # {}
    /\ args.unsplit = {}
    /\ Len(documents) > Len(ChunksOf(SelectSeq(args.file_paths,
                                               LAMBDA f : f \notin args.bad)))

\* C20 as stated: an index_documents call, meeting no other failure, in which
\* no file yields a chunk raises the no-valid-content error and leaves the
\* Document Store, the Vector Index and the persisted artifacts unchanged.
C20_NoContentErrorAnyCall ==
    [][(/\ ret'.op = "index_documents"
        /\ ret'.fault = "none"
        /\ args'.file_paths # <<>>
        /\ Range(args'.file_paths) \subseteq args'.bad \cup args'.unsplit)
        => /\ ret'.outcome = "ValueError"
           /\ args'.message = "No valid content found in any of the provided files"
           /\ UNCHANGED <<documents, index, disk>>]_vars

\* C20, amended: such a call raises the no-valid-content error, except that
\* a call naming one file that fails to load raises that file's error; in
\* both cases the Document Store, the Vector Index and the persisted
\* artifacts are unchanged.
C20_NoContentError ==
    [][(/\ ret'.op = "index_documents"
        /\ ret'.fault = "none"
        /\ args'.file_paths # <<>>
        /\ Range(args'.file_paths) \subseteq args'.bad \cup args'.unsplit)
        => /\ ret'.outcome = "ValueError"
           /\ args'.message =
                IF Len(args'.file_paths) = 1 /\ args'.file_paths[1] \in args'.bad
                THEN "Failed to process file"
                ELSE "No valid content found in any of the provided files"
           /\ UNCHANGED <<documents, index, disk>>]_vars

\* C20 witness: a call naming two files, of which one failed to load and the
\* other yielded no chunk, has raised the no-valid-content error on a pipeline that holds chunks and persisted
\* files.
C20_Witness ==
    /\ ret.op = "index_documents"
    /\ ret.outcome = "ValueError"
    /\ Len(args.file_paths) = 2
    /\ args.bad # {}
    /\ args.unsplit # {}
    /\ args.message = "No valid content found in any of the provided files"
    /\ documents # <<>>
    /\ Exists(disk.docs)

(***************************************************************************)
(* Properties of query, under SpecQuery.  No operation changes the store   *)
(* or the index while the generator is held, so index and documents are    *)
(* those the query saw.                                                    *)
(***************************************************************************)
\* the query has run past its creation
Started == gen.pc \notin {"none", "created"}

\* the fragments of the kinds given, in stream order
OfKinds(stream, kinds) == SelectSeq(stream, LAMBDA fragment : fragment.kind \in kinds)

IsPrefix(short, long) ==
    Len(short) <= Len(long) /\ SubSeq(long, 1, Len(short)) = short

\* the contents the provider streamed that are not empty, in arrival order
RECURSIVE Arrived(_, _)
Arrived(response, i) ==
    IF i > Len(response) THEN <<>>
    ELSE (IF response[i] THEN <<"t" \o ToString(i)>> ELSE <<>>)
            \o Arrived(response, i + 1)

\* C12: a query on a pipeline with no index or an empty Document Store yields
\* the one fragment "No documents have been indexed yet. Please upload some
\* PDF documents first." and ends, without retrieval, without calling the
\* generation provider, with no citation and no telemetry line.
C12_NoDocumentsMessageOnly ==
    (Started /\ (~index.present \/ Len(documents) = 0))
    => /\ gen.pc \in {"no_documents", "done"}
       /\ Len(gen.stream) = 1
       /\ gen.stream[1].kind = "message"
       /\ gen.stream[1].text =
            "No documents have been indexed yet. Please upload some PDF documents first."
       /\ ~gen.retrieved
       /\ ~gen.called

\* C12 witness: a query has ended on a pipeline that holds an index (of no
\* rows) and no chunk.
C12_Witness ==
    /\ gen.pc = "done"
    /\ index.present
    /\ Len(documents) = 0

\* C13: a query that reaches generation streams the generation fragments in
\* arrival order, then one citation, of the top-ranked retrieved chunk, then
\* one telemetry fragment, which is the last; no citation or telemetry comes
\* before generation has finished, and there is never more than one citation.
C13_StreamOrder ==
    (Started /\ gen.relevant_docs # <<>>)
    => LET generated == OfKinds(gen.stream, {"generated", "error"})
           texts == OfKinds(generated, {"generated"})
           expected == Arrived(gen.response, 1)
           top == Retrieve(gen.query, 5, gen.filename)[1]
           tail == SubSeq(gen.stream, Len(generated) + 1, Len(gen.stream))
       IN  /\ gen.pc # "raised"
           /\ SubSeq(gen.stream, 1, Len(generated)) = generated
           /\ SubSeq(generated, 1, Len(texts)) = texts
           /\ IsPrefix([i \in 1..Len(texts) |-> texts[i].text], expected)
           /\ Len(generated) <= Len(texts) + 1
           /\ tail # <<>> =>
                 /\ Len(texts) = Len(expected)
                 /\ gen.fails => Len(generated) = Len(texts) + 1
           /\ IsPrefix([i \in 1..Len(tail) |-> tail[i].kind], <<"source", "performance">>)
           /\ tail # <<>> =>
                 /\ tail[1].filename = top.metadata.filename
                 /\ tail[1].page = top.metadata.page + 1
           /\ gen.pc = "done" => Len(tail) = 2

\* C14: when the generation of a query fails, at once or after some
\* fragments, no exception leaves query: the failure is one text fragment of
\* the stream, and the stream then ends with the citation and the telemetry
\* fragment.
C14_ProviderFailureYielded ==
    (Started /\ gen.failed)
    => LET kinds == [i \in 1..Len(gen.stream) |-> gen.stream[i].kind]
           n == Len(gen.stream)
       IN  /\ gen.pc # "raised"
           /\ Len(OfKinds(gen.stream, {"error"})) = 1
           /\ IsPrefix(<<"error">>,
                       SubSeq(kinds, Len(OfKinds(gen.stream, {"generated"})) + 1, n))
           /\ gen.pc = "done" =>
                 (n >= 3 /\ SubSeq(kinds, n - 2, n) = <<"error", "source", "performance">>)

\* C15: a query on a pipeline with an index and chunks whose retrieval
\* returns no chunk yields the one fragment "No relevant documents found for
\* your query." and ends, without calling the generation provider, with no
\* citation and no telemetry line.
C15_NoRelevantMessageOnly ==
    (/\ Started
     /\ index.present
     /\ Len(documents) > 0
     /\ Retrieve(gen.query, 5, gen.filename) = <<>>)
    => /\ gen.pc \in {"no_relevant", "done"}
       /\ Len(gen.stream) = 1
       /\ gen.stream[1].kind = "message"
       /\ gen.stream[1].text = "No relevant documents found for your query."
       /\ ~gen.called

\* C15 witness: a query filtered by a file name has ended with one fragment on
\* a pipeline whose index holds as many rows as the store holds chunks.
C15_Witness ==
    /\ gen.pc = "done"
    /\ gen.filename # ""
    /\ Len(documents) > 0
    /\ RowCount(index) = Len(documents)
    /\ Len(gen.stream) = 1

(***************************************************************************)
(* Properties of _split_text, under SpecSplit: call is the call made, and  *)
(* call.chunks what it returned.                                           *)
(***************************************************************************)
SplitReturned == call.fn = "_split_text" /\ call.returned

NonBlank(text) == Strip(text) # <<>>

\* the paragraphs of a text: the pieces between its paragraph breaks,
\* stripped, those left empty dropped
RECURSIVE Pieces(_, _)
Pieces(text, from) ==
    LET breaks == {i \in from..(Len(text) - 1) :
                      text[i] = "\n" /\ text[i + 1] = "\n"}
    IN  IF breaks = {} THEN <<SubSeq(text, from, Len(text))>>
        ELSE LET at == CHOOSE i \in breaks : \A j \in breaks : i <= j
             IN  <<SubSeq(text, from, at - 1)>> \o Pieces(text, at + 2)

StrippedAll(pieces) == [i \in 1..Len(pieces) |-> Strip(pieces[i])]

Paragraphs(text) ==
    SelectSeq(StrippedAll(Pieces(text, 1)), LAMBDA p : p # <<>>)

\* C21 as stated: every text no longer than chunk_size, the blank ones
\* included, gives exactly one chunk.
C21_ShortTextOneChunkAnyText ==
    (SplitReturned /\ Len(call.text) <= call.chunk_size)
        => Len(call.chunks) = 1

\* C21: a text that is no longer than chunk_size and is not blank gives
\* exactly one chunk (a blank one gives none).
C21_ShortTextOneChunk ==
    (SplitReturned /\ Len(call.text) <= call.chunk_size)
        => Len(call.chunks) = (IF NonBlank(call.text) THEN 1 ELSE 0)

\* a text of two paragraphs that fits the chunk size came back as one chunk
C21_Witness ==
    /\ SplitReturned
    /\ Len(call.text) <= call.chunk_size
    /\ Len(Paragraphs(call.text)) = 2
    /\ Len(call.chunks) = 1

\* C22: of two consecutive chunks of one call, the last chunk_overlap
\* characters of the first (all of it when it is shorter) start the second.
C22_OverlapStartsNextChunk ==
    SplitReturned =>
        \A i \in 1..(Len(call.chunks) - 1) :
            LET chunk == call.chunks[i]
                n == IF Len(chunk) < call.chunk_overlap THEN Len(chunk)
                     ELSE call.chunk_overlap
            IN  IsPrefix(SubSeq(chunk, Len(chunk) - n + 1, Len(chunk)),
                         call.chunks[i + 1])

\* the leading overlap region of chunk i: what is left of the last
\* chunk_overlap characters of chunk i-1 (of all of it when it is shorter)
\* once the chunk is stripped
OverlapRegion(chunks, i, chunk_overlap) ==
    LET previous == chunks[i - 1]
        n == IF Len(previous) < chunk_overlap THEN Len(previous)
             ELSE chunk_overlap
    IN  LStrip(SubSeq(previous, Len(previous) - n + 1, Len(previous)))

\* chunk i without its overlap region and the paragraph break that ends it
ChunkBody(chunks, i, chunk_overlap) ==
    IF i = 1 THEN chunks[1]
    ELSE SubSeq(chunks[i], Len(OverlapRegion(chunks, i, chunk_overlap)) + 3,
                Len(chunks[i]))

\* the paragraphs of the bodies of chunks i.., in order
RECURSIVE BodyParagraphs(_, _, _)
BodyParagraphs(chunks, i, chunk_overlap) ==
    IF i > Len(chunks) THEN <<>>
    ELSE Pieces(ChunkBody(chunks, i, chunk_overlap), 1)
             \o BodyParagraphs(chunks, i + 1, chunk_overlap)

ParagraphsKept ==
    /\ BodyParagraphs(call.chunks, 1, call.chunk_overlap) = Paragraphs(call.text)
    /\ \A i \in 1..Len(call.chunks) :
          LET held == Pieces(ChunkBody(call.chunks, i, call.chunk_overlap), 1)
          IN  (\E k \in 1..Len(held) : Len(held[k]) > call.chunk_size)
                  => Len(held) = 1

C24_ChunksCapped ==
    SplitReturned =>
        LET cut == SplitChunks(call.text, call.chunk_size, call.chunk_overlap)
        IN  /\ Len(call.chunks) <= ChunkLimit
            /\ IsPrefix(call.chunks, cut)
            /\ Len(call.chunks) < Len(cut) => Len(call.chunks) = ChunkLimit

\* a text cut into more chunks than the cap came back as the cap's number
\* of chunks
C24_Witness ==
    /\ SplitReturned
    /\ Len(SplitChunks(call.text, call.chunk_size, call.chunk_overlap))
           > ChunkLimit
    /\ Len(call.chunks) = ChunkLimit

\* C25: no chunk a call returns is empty or all whitespace, and neither is
\* the content of a Document made of the chunks of a page.
C25_NoBlankChunk ==
    SplitReturned =>
        /\ \A i \in 1..Len(call.chunks) : NonBlank(call.chunks[i])
        /\ \A i \in 1..Len(call.page_documents) :
              NonBlank(call.page_documents[i].content)

\* a text with blank paragraphs between two others gave chunks and Documents
C25_Witness ==
    /\ SplitReturned
    /\ Len(Pieces(call.text, 1)) > Len(Paragraphs(call.text))
    /\ Len(call.chunks) = 2
    /\ Len(call.page_documents) = 2

(***************************************************************************)
(* The best title, under SpecTitle.                                        *)
(***************************************************************************)
TitleReturned == call.fn = "_extract_document_info" /\ call.returned

EndsWith(s, suffix) ==
    Len(suffix) <= Len(s)
    /\ SubSeq(s, Len(s) - Len(suffix) + 1, Len(s)) = suffix

\* the filename without its .pdf suffix
Stem(filename) ==
    IF EndsWith(filename, DotPdf)
    THEN SubSeq(filename, 1, Len(filename) - Len(DotPdf))
    ELSE filename

\* where .pdf occurs in a name
Occurrences(s, sub) ==
    {i \in 1..(Len(s) - Len(sub) + 1) : SubSeq(s, i, i + Len(sub) - 1) = sub}

\* the name without the characters of any occurrence of .pdf; the
\* occurrences of .pdf in a name do not overlap
WithoutEvery(s, sub) ==
    LET gone == UNION {i..(i + Len(sub) - 1) : i \in Occurrences(s, sub)}
        kept(i) == i \notin gone
        RECURSIVE Keep(_)
        Keep(i) == IF i > Len(s) THEN <<>>
                   ELSE (IF kept(i) THEN <<s[i]>> ELSE <<>>) \o Keep(i + 1)
    IN  Keep(1)

\* the title with the priority the claim gives, the third source being from
BestOf(from) ==
    IF Truthy(call.pdf_title) THEN call.pdf_title[1]
    ELSE IF call.extracted_title # None THEN call.extracted_title[1]
    ELSE from

\* C26 as stated: the third source is the filename with its .pdf suffix
\* removed, underscores turned into spaces, title-cased.
C26_BestTitleOfSuffixlessName ==
    TitleReturned =>
        call.best_title = BestOf(Title(UnderscoresToSpaces(Stem(call.filename))))

\* C26: the best title is the metadata title when there is a non-empty one,
\* else the extracted title when one was found, else the filename with every
\* occurrence of .pdf removed, underscores turned into spaces, title-cased,
\* and the filename as it is when that leaves nothing.
C26_BestTitle ==
    TitleReturned =>
        LET derived == Title(UnderscoresToSpaces(WithoutEvery(call.filename, DotPdf)))
        IN  call.best_title =
                BestOf(IF derived = <<>> THEN call.filename ELSE derived)

\* no metadata title and no extracted one: the title came from a filename
\* with an underscore and a capital inside
C26_Witness ==
    /\ TitleReturned
    /\ ~Truthy(call.pdf_title)
    /\ call.pdf_title # None
    /\ call.extracted_title = None
    /\ call.best_title = <<"M", "y", " ", "D", "o", "c">>

(***************************************************************************)
(* _create_embeddings_batch, under SpecEmbed.                              *)
(***************************************************************************)
EmbedReturned == call.fn = "_create_embeddings_batch" /\ call.returned

\* C27: the batches given to the embedder are the consecutive slices of
\* batch_size texts, in input order; a call that returns gives one row per
\* text, in input order, having checked the memory once before each batch;
\* a call whose memory check fails before batch k has embedded the k - 1
\* batches before it and no other, and raises with no rows returned.
C27_BatchesInOrder ==
    EmbedReturned =>
        LET result == call.result
            size == call.batch_size
        IN  /\ \A b \in 1..Len(result.batches) :
                  result.batches[b] =
                      [k \in 1..Min(size, Len(call.texts) - (b - 1) * size) |->
                          call.texts[(b - 1) * size + k]]
            /\ result.outcome = "ok" =>
                  /\ result.rows = [t \in 1..Len(call.texts) |-> Embed(call.texts[t])]
                  /\ Len(result.batches) = BatchCount(call.texts, size)
                  /\ result.checks = Len(result.batches)
            /\ (call.low_at > 0
                /\ (call.fails_at = 0 \/ call.low_at <= call.fails_at)) =>
                  /\ result.outcome = "ValueError"
                  /\ Len(result.batches) = call.low_at - 1
                  /\ result.checks = call.low_at
                  /\ result.rows = <<>>

\* the memory ran low before the second of two batches: one batch had been
\* embedded and the call raised
C27_Witness ==
    /\ EmbedReturned
    /\ call.batch_size = 2
    /\ Len(call.texts) = MaxBatchTexts
    /\ call.low_at = 2
    /\ call.fails_at = 0
    /\ Len(call.result.batches) = 1
    /\ call.result.outcome = "ValueError"

(***************************************************************************)
(* Page numbers, under SpecPages.                                          *)
(***************************************************************************)
\* C28: the page stored on a chunk is the 0-based number of the page of the
\* PDF whose text the chunk is, whatever pages without text come before it.
C28_PageIsPdfPage ==
    (call.fn = "_load_pdf" /\ call.returned) =>
        \A i \in 1..Len(call.all_chunks) :
            LET doc == call.all_chunks[i]
            IN  /\ doc.metadata.page < Len(call.pdf)
                /\ ExtractText(call.pdf, doc.metadata.page) = doc.content

(***************************************************************************)
(* The context, under SpecContext.                                         *)
(***************************************************************************)
ContextReturned == call.fn = "_organize_context" /\ call.returned

\* the place in the list of the chunk the claim has rendered for a file: of
\* the file's chunks the one of lowest chunk index, the first of those
Rendered(docs, filename) ==
    CHOOSE i \in 1..Len(docs) :
        /\ docs[i].metadata.filename = filename
        /\ \A j \in 1..Len(docs) :
              docs[j].metadata.filename = filename =>
                  \/ docs[i].metadata.chunk < docs[j].metadata.chunk
                  \/ (docs[i].metadata.chunk = docs[j].metadata.chunk /\ i <= j)

InPass ==
    {t \in Threads : app.threads[t].pc \in {"list", "index", "indexing", "verify"}}

HeadingReturned == call.fn = "_get_heading_level" /\ call.returned

\* C34: a line is given one level in 0..6; a line that is neither a title
\* nor a chapter line is given level 4 when it begins with a three-part
\* number and level 3 when it begins with a two-part number only.
C34_SectionNumberLevels ==
    HeadingReturned =>
       /\ call.level \in 0..6
       /\ (~IsDocumentTitle(call.line, call.index) /\ ~ChapterPattern(call.line)) =>
             /\ SectionNumber(call.line, 3) => call.level = 4
             /\ (SectionNumber(call.line, 2) /\ ~SectionNumber(call.line, 3)) =>
                   call.level = 3

(***************************************************************************)
(* The citation of a query against the context of its generation request: *)
(* query passes relevant_docs to _generate_response, which renders them    *)
(* with _organize_context (line 702), and cites relevant_docs[0].          *)
(***************************************************************************)
\* C35: the chunk a query cites, the first of the retrieved chunks, is one
\* of the chunks rendered in the context: a section of the context is headed
\* by the cited file and page and holds the cited chunk's text.
C35_CitedChunkRendered ==
    (/\ ContextReturned
     /\ call.context_docs # <<>>
     /\ \A i, j \in 1..Len(call.context_docs) :
           call.context_docs[i] = call.context_docs[j] => i = j) =>
        LET cited == PrimaryDoc(call.context_docs)
            source == SourceText(cited)
            parts == call.context
        IN  \E k \in 1..(Len(parts) - 1) :
               /\ parts[k].kind = "heading"
               /\ parts[k].filename = source.filename
               /\ parts[k].page = source.page
               /\ parts[k + 1] = Part("content", "", 0, Strip(cited.content))

(***************************************************************************)
(* The requests and the startup pass, under SpecServer.                    *)
(***************************************************************************)
\* the operations on the cached pipeline that have been entered and have not
\* returned: index_documents of a pass, index_documents of the upload's
\* Thread, delete_document, clear_all_documents
InOperation ==
    {<<"pass", t>> : t \in {t \in Threads : app.threads[t].pc = "indexing"}}
        \cup (IF app.upload.worker = "indexing" THEN {<<"upload", 0>>} ELSE {})
        \cup (IF app.delete.pc = "deleting" THEN {<<"delete", 0>>} ELSE {})
        \cup (IF app.clear = "clearing" THEN {<<"delete_all", 0>>} ELSE {})

HoldsChunksOf(docs, file) ==
    \E i \in 1..Len(docs) : docs[i].metadata.filename = file

HoldsFlag(t) ==
    app.threads[t].pc \in {"list", "index", "indexing", "verify", "finally"}

\* a step of Thread t that returns early (line 103) leaves the flag as it is;
\* a step that ends a pass which had set the flag leaves the flag cleared
FlagAtReturn ==
    \A t \in Threads :
        /\ (app.threads[t].pc = "check" /\ app'.threads[t].pc = "dead") =>
              app'.flag = app.flag
        /\ (HoldsFlag(t) /\ app'.threads[t].pc = "dead") => ~app'.flag

\* C33: a pass that has set the flag comes to its end, where it clears the
\* flag, whatever it found or raised; a pass that returns early because the
\* flag was set does not change the flag.
C33_FlagClearedByItsPass ==
    /\ \A t \in Threads : HoldsFlag(t) ~> (app.threads[t].pc = "dead")
    /\ [][FlagAtReturn]_vars

\* a pass took the early return while another held the flag, which is still
\* set
C33_Witness ==
    \E t, other \in Threads :
        /\ app.threads[t].pc = "dead"
        /\ app.threads[t].files = {}
        /\ HoldsFlag(other)
        /\ app.flag

(***************************************************************************)
(* Retrievals while an operation runs, under SpecSteps.                    *)
(***************************************************************************)
\* the rows index.search returns for a query of query() (top_k = 5)
RowsFound(query_text) ==
    IndexSearch(index, Embed(query_text), Min(5 * 2, Len(documents)))

\* C36: a retrieval made while index_documents or delete_document is between
\* its steps returns only chunks that the search matched: each returned chunk
\* is the store entry at a row the search returned that holds the chunk's own
\* embedding, and no chunk is returned for a missing neighbour (row -1).
C36_ReturnsMatchedChunksOnly ==
    (ret.op = "retrieve" /\ call.fn \in {"index_documents", "delete_document"}) =>
        \A query_text \in Queries :
            LET found == RowsFound(query_text)
                returned == Retrieve(query_text, 5, "")
                matched == {k \in 1..Len(found) :
                               /\ found[k] >= 0
                               /\ found[k] < Len(documents)
                               /\ index.rows[found[k] + 1] =
                                     Embed(documents[found[k] + 1].content)}
            IN  /\ \A i \in 1..Len(returned) :
                      \E k \in matched : documents[found[k] + 1] = returned[i]
                /\ Len(returned) <= Cardinality(matched)

(***************************************************************************)
(* Two providers' pipelines on one directory, under SpecProviders.         *)
(***************************************************************************)
\* the files that have chunks in the persisted store
PersistedFiles(d) ==
    {f \in Files : HoldsChunksOf(PickleLoad(d.docs), f)}

\* a step that writes the directory keeps in the persisted store every file
\* that is persisted, is held by a cached pipeline and is not the file the
\* step deletes
PersistedKept ==
    (disk' # disk) =>
        \A provider \in Providers, f \in Files :
            (/\ app.pipelines[provider].cached
             /\ HoldsChunksOf(app.pipelines[provider].documents, f)
             /\ f \in PersistedFiles(disk)
             /\ f \in app'.folder)
                => f \in PersistedFiles(disk')

====
